---- MODULE Spec2Model ----
(***************************************************************************)
(* StockVisualizer backend: the condition-based screening engine           *)
(* (backend/database/strategy_queries.py, backend/models/strategy_model.py)*)
(* and the Granger causality pipeline                                      *)
(* (backend/services/granger_service.py).                                  *)
(*                                                                         *)
(* Encodings used throughout:                                              *)
(*   - an Optional[T] is a sequence of length <= 1: <<>> is None;          *)
(*   - a symbol is the sequence of its digits, so that SQL LIKE 'ab%' is   *)
(*     a prefix test;                                                      *)
(*   - a condition value (Union[float, List[float]]) is the record         *)
(*     [isList, items]: a scalar v is [isList |-> FALSE, items |-> <<v>>]; *)
(*   - prices, volumes and thresholds are small integers.                  *)
(***************************************************************************)
EXTENDS Integers, Sequences, FiniteSets, TLC

VARIABLES
    \* ---- screening engine
    stock_daily_data,   \* rows of table stock_daily_data
    index_daily_data,   \* rows of table index_daily_data
    strategy,           \* Optional: the StrategyModel of the request being served
    target,             \* "stock" | "index" | "none": which query served it
    screen_out,         \* Optional: what execute_*_strategy returned / raised
    \* ---- one condition through ConditionModel and _build_condition_clause
    cond,               \* the raw condition, its index and the is_index flag
    cpc,                \* "raw" | "rejected" | "accepted" | "compiled" | "evaluated"
    compiled,           \* Optional: (clause, params) of _build_condition_clause
    probe,              \* Optional: a row value and the clause's outcome on it
    \* ---- Granger causality pipeline
    stock_info,         \* Optional: the basic record get_stock_info finds for the stock
    fetch_fails,        \* the indices whose get_index_kline_data call raises
    stock_kline,        \* the stock's daily rows in the window, in fetch order
    index_kline,        \* index symbol -> that index's daily rows in the window
    request,            \* Optional: the GrangerRequest being served
    gpc,                \* where execute_granger_test stands
    indices,            \* remaining rows of the indices list read at line 60
    results,            \* the results list of execute_granger_test
    response,           \* Optional: the GrangerResponse built at the end
    queries,            \* every database read so far, in order
    processed,          \* per index handled by the loop: what became of it
    lib_calls,          \* every call of grangercausalitytests: the columns passed
    aligned,            \* Optional: what get_stock_index_data returned (aligner alone)
    \* ---- run_granger_test on its own
    test_args,          \* Optional: x_series, y_series, max_lag, significance_level
    lib_out,            \* Optional: what grangercausalitytests did for this call
    test_result,        \* Optional: the dict run_granger_test returned
    \* ---- the strategy execution endpoints
    body,               \* Optional: the strategy fields the client sent
    endpoint,           \* "execute" | "execute_stock" | "execute_index" | "none"
    target_type,        \* the target_type query parameter
    epc,                \* "idle" | "received" | "parsed" | "responded"
    ep_model,           \* Optional: the StrategyModel FastAPI built from the body
    ep_errors,          \* Optional: the list validate_strategy returned
    http,               \* Optional: the HTTP response (status, detail)
    trace,              \* the service and store calls made for the request, in order
    \* ---- the condition loop of execute_stock_strategy / execute_index_strategy
    loop_strategy,      \* Optional: the strategy's conditions and the is_index flag
    loop_clauses,      \* the clause appended for each condition, in order
    condition_params,   \* the params dict _build_condition_clause returned per condition
    bound_params,       \* Optional: the params dict after every params.update
    \* ---- table stock_basic_info and the functions that write it
    stock_basic_info,   \* symbol -> the row's name and two auction volumes
    info_before,        \* the table as it was before the latest call
    info_log            \* every call made so far, in order: arguments and outcome

screen_vars == <<stock_daily_data, index_daily_data, strategy, target, screen_out>>

compile_vars == <<cond, cpc, compiled, probe>>

granger_vars == <<stock_info, fetch_fails, stock_kline, index_kline, request, gpc, indices, results,
                  response, queries, processed, lib_calls, aligned>>

test_vars == <<test_args, lib_out, test_result>>

endpoint_vars == <<body, endpoint, target_type, epc, ep_model, ep_errors, http, trace>>

loop_vars == <<loop_strategy, loop_clauses, condition_params, bound_params>>

info_vars == <<stock_basic_info, info_before, info_log>>

vars == <<screen_vars, compile_vars, granger_vars, test_vars, endpoint_vars, loop_vars, info_vars>>

-----------------------------------------------------------------------------
(* Small helpers *)

None == <<>>

Some(x) == <<x>>

Scalar(v) == [isList |-> FALSE, items |-> <<v>>]

ListOf(s) == [isList |-> TRUE, items |-> s]

Min2(a, b) == IF a <= b THEN a ELSE b

\* All sequences over S of length lo..hi.
SeqsOf(S, lo, hi) == UNION {[1..n -> S] : n \in lo..hi}

\* All enumerations (without repetition) of the finite set S.
Enumerations(S) ==
    {q \in [1..Cardinality(S) -> S] : \A i, j \in 1..Cardinality(S) : i # j => q[i] # q[j]}

-----------------------------------------------------------------------------
(* Bounds and input sets *)

\* Most rows a table holds.
MaxRows == 3

\* Most conditions in one strategy.
MaxConds == 2

Dates == {1, 2}

CloseValues == {1, 2}

StockSymbols == {<<6, 0, 0>>, <<0, 0, 1>>}

IndexSymbols == {<<0, 0, 1>>, <<3, 9, 9>>}

\* index_daily_data.name: one display name per index symbol.
IndexName(symbol) == IF symbol = <<0, 0, 1>> THEN "SSE" ELSE "SZSE"

-----------------------------------------------------------------------------
(* backend/models/strategy_model.py *)

\* ComparisonOperator
GT == ">"
GTE == ">="
LT == "<"
LTE == "<="
EQ == "=="
NEQ == "!="
BETWEEN == "between"
CROSS_ABOVE == "cross_above"
CROSS_BELOW == "cross_below"

ComparisonOperator == {GT, GTE, LT, LTE, EQ, NEQ, BETWEEN, CROSS_ABOVE, CROSS_BELOW}

\* TimeFrame
DAILY == "daily"

TimeFrame == {DAILY, "weekly", "monthly"}

\* validate_value with the bounds compared by > (equal bounds pass).
validate_value_strict_gt(operator, v) ==
    IF operator = BETWEEN
    THEN IF ~v.isList \/ Len(v.items) # 2
         THEN FALSE
         ELSE ~(v.items[1] > v.items[2])
    ELSE TRUE

\* ConditionModel.validate_value: TRUE when the validator returns v, FALSE when it
\* raises ValueError. Only the BETWEEN operator is inspected.
validate_value(operator, v) ==
    IF operator = BETWEEN
    THEN IF ~v.isList \/ Len(v.items) # 2
         THEN FALSE
         ELSE ~(v.items[1] >= v.items[2])
    ELSE TRUE

\* ConditionModel(...): the fields' types (operator is a ComparisonOperator, value a
\* float or a list of floats) and then the validator of value.
ConditionModelAccepts(c) ==
    /\ c.operator \in ComparisonOperator
    /\ c.time_frame \in TimeFrame
    /\ validate_value(c.operator, c.value)

-----------------------------------------------------------------------------
(* backend/database/strategy_queries.py: _build_condition_clause *)

\* A bind-parameter name that leaves the condition's index out.
ParamNameNoIndex(index, suffix) == [base |-> "value", index |-> 0, suffix |-> suffix]

\* The bind-parameter name f"value_{index}{suffix}".
ParamName(index, suffix) == [base |-> "value", index |-> index, suffix |-> suffix]

\* A comparison predicate "<prefix><indicator> <sqlop> :<param>".
CmpClause(prefix, indicator, sqlop, param) ==
    [kind |-> "cmp", prefix |-> prefix, column |-> indicator, sqlop |-> sqlop,
     param |-> param, low |-> param, high |-> param]

\* "<prefix><indicator> BETWEEN :<low> AND :<high>".
BetweenClause(prefix, indicator, low, high) ==
    [kind |-> "between", prefix |-> prefix, column |-> indicator, sqlop |-> "BETWEEN",
     param |-> low, low |-> low, high |-> high]

\* "1=1".
TrueClause ==
    [kind |-> "true", prefix |-> "", column |-> "", sqlop |-> "",
     param |-> ParamName(0, ""), low |-> ParamName(0, ""), high |-> ParamName(0, "")]

\* SqlOperator with the >= branch writing ">".
SqlOperatorGteAsGt(operator) ==
    CASE operator = GT -> ">"
      [] operator = GTE -> ">"
      [] operator = LT -> "<"
      [] operator = LTE -> "<="
      [] operator = EQ -> "="
      [] operator = NEQ -> "!="
      [] operator = CROSS_ABOVE -> ">"
      [] operator = CROSS_BELOW -> "<"

\* The SQL operator each single-parameter branch writes into the clause.
SqlOperator(operator) ==
    CASE operator = GT -> ">"
      [] operator = GTE -> ">="
      [] operator = LT -> "<"
      [] operator = LTE -> "<="
      [] operator = EQ -> "="
      [] operator = NEQ -> "!="
      [] operator = CROSS_ABOVE -> ">"
      [] operator = CROSS_BELOW -> "<"

\* A _build_condition_clause whose two "pass" branches are implemented: a
\* non-daily time frame or a days > 1 requirement changes the predicate.
build_condition_clause_timed(condition, index, is_index) ==
    LET table_prefix == IF is_index THEN "i." ELSE "s."
        indicator == condition.indicator
        timed == \/ condition.time_frame # DAILY
                 \/ (condition.days # None /\ condition.days[1] > 1)
    IN  IF timed
        THEN [clause |-> TrueClause, params |-> <<>>]
        ELSE IF condition.operator \in {GT, GTE, LT, LTE, EQ, NEQ, CROSS_ABOVE, CROSS_BELOW}
        THEN [clause |-> CmpClause(table_prefix, indicator,
                                   SqlOperator(condition.operator), ParamName(index, "")),
              params |-> (ParamName(index, "") :> condition.value)]
        ELSE IF condition.operator = BETWEEN
        THEN [clause |-> BetweenClause(table_prefix, indicator,
                                       ParamName(index, "_low"), ParamName(index, "_high")),
              params |-> (ParamName(index, "_low") :> Scalar(condition.value.items[1]))
                         @@ (ParamName(index, "_high") :> Scalar(condition.value.items[2]))]
        ELSE [clause |-> TrueClause, params |-> <<>>]

\* _build_condition_clause(condition, index, is_index) -> (clause, params).
\* time_frame and days are read and ignored (both branches are "pass").
build_condition_clause(condition, index, is_index) ==
    LET table_prefix == IF is_index THEN "i." ELSE "s."
        indicator == condition.indicator
    IN  IF condition.operator \in {GT, GTE, LT, LTE, EQ, NEQ, CROSS_ABOVE, CROSS_BELOW}
        THEN [clause |-> CmpClause(table_prefix, indicator,
                                   SqlOperator(condition.operator), ParamName(index, "")),
              params |-> (ParamName(index, "") :> condition.value)]
        ELSE IF condition.operator = BETWEEN
        THEN [clause |-> BetweenClause(table_prefix, indicator,
                                       ParamName(index, "_low"), ParamName(index, "_high")),
              params |-> (ParamName(index, "_low") :> Scalar(condition.value.items[1]))
                         @@ (ParamName(index, "_high") :> Scalar(condition.value.items[2]))]
        ELSE [clause |-> TrueClause, params |-> <<>>]

-----------------------------------------------------------------------------
(* The SQL the two queries hand to PostgreSQL, and its evaluation *)

\* symbol LIKE '<pattern>%'
Like(symbol, pattern) ==
    /\ Len(symbol) >= Len(pattern)
    /\ SubSeq(symbol, 1, Len(pattern)) = pattern

\* "(x.symbol LIKE 'p1%' OR x.symbol LIKE 'p2%' ...)"
LikeClause(patterns) == [kind |-> "like", patterns |-> patterns]

\* <left> <sqlop> <right> on non-null numbers.
SqlCompare(left, sqlop, right) ==
    CASE sqlop = ">" -> left > right
      [] sqlop = ">=" -> left >= right
      [] sqlop = "<" -> left < right
      [] sqlop = "<=" -> left <= right
      [] sqlop = "=" -> left = right
      [] sqlop = "!=" -> left # right

\* One predicate of the WHERE text on one row, with the bound parameters.
EvalClause(clause, params, row) ==
    CASE clause.kind = "like" -> \E p \in clause.patterns : Like(row.symbol, p)
      [] clause.kind = "cmp" ->
            SqlCompare(row[clause.column], clause.sqlop, params[clause.param].items[1])
      [] clause.kind = "between" ->
            /\ row[clause.column] >= params[clause.low].items[1]
            /\ row[clause.column] <= params[clause.high].items[1]
      [] clause.kind = "true" -> TRUE

\* A parenthesised group "(c1) <join> (c2) ...".
EvalGroup(group, params, row) ==
    IF group.join = "AND"
    THEN \A k \in 1..Len(group.clauses) : EvalClause(group.clauses[k], params, row)
    ELSE \E k \in 1..Len(group.clauses) : EvalClause(group.clauses[k], params, row)

\* The WHERE text is a conjunction of parenthesised groups (none: no WHERE).
EvalWhere(groups, params, row) ==
    \A g \in 1..Len(groups) : EvalGroup(groups[g], params, row)

\* PostgreSQL rejects the statement when a list (an array) is bound where the
\* comparison needs a number.
BindTypeError(groups, params) ==
    \E g \in 1..Len(groups) : \E k \in 1..Len(groups[g].clauses) :
        /\ groups[g].clauses[k].kind = "cmp"
        /\ params[groups[g].clauses[k].param].isList

\* first_value(close) OVER (PARTITION BY symbol ORDER BY date DESC): the window
\* is computed over the rows the WHERE kept.
FirstValueClose(rows, symbol) ==
    LET part == {r \in rows : r.symbol = symbol}
        top == CHOOSE r \in part : \A o \in part : o.date <= r.date
    IN  top.close

\* Lexicographic order of two symbols (text comparison).
SymbolLess(a, b) ==
    \E i \in 1..Min2(Len(a), Len(b)) :
        /\ a[i] < b[i]
        /\ \A j \in 1..(i - 1) : a[j] = b[j]

\* ORDER BY <sort_by> <direction>: a before b is allowed.
OrderAllows(sort_by, direction, a, b) ==
    LET less(x, y) == IF sort_by = "symbol" THEN SymbolLess(x.symbol, y.symbol)
                      ELSE x.latest_price < y.latest_price
    IN  IF direction = "ASC" THEN ~less(b, a) ELSE ~less(a, b)

\* Every order in which the server may return the projected rows: any order
\* without ORDER BY, and any order of ties with it.
ResultOrders(projected, order_by) ==
    {q \in Enumerations(projected) :
        order_by = None \/
        \A i, j \in 1..Len(q) :
            i < j => OrderAllows(order_by[1].column, order_by[1].direction, q[i], q[j])}

\* LIMIT n
Limit(q, limit) == IF limit = None THEN q ELSE SubSeq(q, 1, Min2(limit[1], Len(q)))

\* ReadSql selecting each kept row's own close instead of the window value:
\* DISTINCT then keeps one row per (symbol, close).
ReadSqlOwnClose(table, with_name, groups, params, order_by, limit) ==
    LET kept == {r \in table : EvalWhere(groups, params, r)}
        projected ==
            IF with_name
            THEN {[symbol |-> r.symbol, name |-> r.name, latest_price |-> r.close] : r \in kept}
            ELSE {[symbol |-> r.symbol, latest_price |-> r.close] : r \in kept}
    IN  {Limit(q, limit) : q \in ResultOrders(projected, order_by)}

\* SELECT DISTINCT <projection> FROM table [WHERE ...] [ORDER BY ...] [LIMIT n]:
\* the set of result sequences pd.read_sql can return.
ReadSql(table, with_name, groups, params, order_by, limit) ==
    LET kept == {r \in table : EvalWhere(groups, params, r)}
        projected ==
            IF with_name
            THEN {[symbol |-> r.symbol, name |-> r.name,
                   latest_price |-> FirstValueClose(kept, r.symbol)] : r \in kept}
            ELSE {[symbol |-> r.symbol,
                   latest_price |-> FirstValueClose(kept, r.symbol)] : r \in kept}
    IN  {Limit(q, limit) : q \in ResultOrders(projected, order_by)}

-----------------------------------------------------------------------------
(* backend/database/strategy_queries.py: the two queries *)

\* dict.update
Update(d, e) == [k \in (DOMAIN d) \cup (DOMAIN e) |-> IF k \in DOMAIN e THEN e[k] ELSE d[k]]

\* "if strategy.market and strategy.market != 'all'"
MarketGiven(s) == s.market # None /\ s.market # Some("all")

\* The market clause execute_stock_strategy appends (stock symbol prefixes).
StockMarketClause(market) ==
    CASE market = "sh" -> <<LikeClause({<<6, 0>>, <<6, 8>>})>>
      [] market = "sz" -> <<LikeClause({<<0, 0>>, <<3, 0>>})>>
      [] market = "bj" -> <<LikeClause({<<4, 3>>, <<8, 3>>, <<8, 7>>})>>
      [] OTHER -> <<>>

\* The market clause execute_index_strategy appends (index symbol prefixes).
IndexMarketClause(market) ==
    CASE market = "sh" -> <<LikeClause({<<0, 0>>, <<8, 8>>})>>
      [] market = "sz" -> <<LikeClause({<<3, 9>>})>>
      [] market = "bj" -> <<LikeClause({<<8, 9>>})>>
      [] OTHER -> <<>>

\* The loop "for i, condition in enumerate(strategy.conditions)": the clauses
\* appended, in order (index i is 0-based).
ConditionClauses(s, is_index) ==
    [k \in 1..Len(s.conditions) |->
        build_condition_clause(s.conditions[k], k - 1, is_index).clause]

\* The same loop's params.update(condition_params), after the first n conditions.
RECURSIVE ConditionParams(_, _, _)
ConditionParams(s, is_index, n) ==
    IF n = 0 THEN <<>>
    ELSE Update(ConditionParams(s, is_index, n - 1),
                build_condition_clause(s.conditions[n], n - 1, is_index).params)

\* " AND " if strategy.logic == "AND" else " OR "
LogicOperator(s) == IF s.logic = "AND" THEN "AND" ELSE "OR"

Group(join, clauses) == [join |-> join, clauses |-> clauses]

\* StockWhere with the market clause joined like any other clause.
StockWhereFlat(s) ==
    <<Group(LogicOperator(s),
          (IF MarketGiven(s) THEN StockMarketClause(s.market[1]) ELSE <<>>)
          \o ConditionClauses(s, FALSE))>>

\* execute_stock_strategy, lines 57-71: the WHERE text as its parenthesised groups.
StockWhere(s) ==
    LET where_clauses ==
            (IF MarketGiven(s) THEN StockMarketClause(s.market[1]) ELSE <<>>)
            \o ConditionClauses(s, FALSE)
    IN  IF where_clauses = <<>> THEN <<>>
        ELSE IF MarketGiven(s)
        THEN IF Tail(where_clauses) # <<>>
             THEN <<Group("AND", <<Head(where_clauses)>>),
                    Group(LogicOperator(s), Tail(where_clauses))>>
             ELSE <<Group("AND", <<Head(where_clauses)>>)>>
        ELSE <<Group(LogicOperator(s), where_clauses)>>

\* execute_index_strategy, lines 156-165.
IndexWhere(s) ==
    LET where_clauses ==
            (IF MarketGiven(s) THEN IndexMarketClause(s.market[1]) ELSE <<>>)
            \o ConditionClauses(s, TRUE)
    IN  IF where_clauses = <<>> THEN <<>>
        ELSE IF MarketGiven(s) /\ Len(where_clauses) > 1
        THEN <<Group("AND", <<Head(where_clauses)>>),
               Group(LogicOperator(s), Tail(where_clauses))>>
        ELSE <<Group(LogicOperator(s), where_clauses)>>

\* "ORDER BY {sort_by} {DESC|ASC}" when sort_by is given.
OrderBy(s) ==
    IF s.sort_by = None THEN None
    ELSE Some([column |-> s.sort_by[1],
               direction |-> IF s.sort_order = Some("desc") THEN "DESC" ELSE "ASC"])

\* match_details that echo the first condition only.
MatchDetailsFirstOnly(s) ==
    [k \in 1..1 |->
        [indicator |-> s.conditions[k].indicator,
         operator |-> s.conditions[k].operator,
         value |-> s.conditions[k].value]]

\* The match_details attached to every row: "condition_<k>" (k is 1-based)
\* echoes the k-th condition.
MatchDetails(s) ==
    [k \in 1..Len(s.conditions) |->
        [indicator |-> s.conditions[k].indicator,
         operator |-> s.conditions[k].operator,
         value |-> s.conditions[k].value]]

Raised(kind) == [status |-> kind, strategy_name |-> "", total |-> 0, items |-> <<>>]

\* execute_stock_strategy(db, strategy): every outcome it can have on the table.
execute_stock_strategy(table, s) ==
    LET params == ConditionParams(s, FALSE, Len(s.conditions))
        groups == StockWhere(s)
    IN  IF BindTypeError(groups, params) THEN {Raised("db_error")}
        ELSE {[status |-> "ok", strategy_name |-> s.name, total |-> Len(result),
               items |-> [i \in 1..Len(result) |->
                            [symbol |-> result[i].symbol,
                             latest_price |-> result[i].latest_price,
                             match_details |-> MatchDetails(s)]]] :
              result \in ReadSql(table, FALSE, groups, params, OrderBy(s), s.max_stocks)}

\* execute_index_strategy(db, strategy).
execute_index_strategy(table, s) ==
    LET params == ConditionParams(s, TRUE, Len(s.conditions))
        groups == IndexWhere(s)
    IN  IF BindTypeError(groups, params) THEN {Raised("db_error")}
        ELSE {[status |-> "ok", strategy_name |-> s.name, total |-> Len(result),
               items |-> [i \in 1..Len(result) |->
                            [symbol |-> result[i].symbol,
                             name |-> result[i].name,
                             latest_price |-> result[i].latest_price,
                             match_details |-> MatchDetails(s)]]] :
              result \in ReadSql(table, TRUE, groups, params, OrderBy(s), s.max_stocks)}

-----------------------------------------------------------------------------
(* Requests and stores the screening specification draws from *)

Condition(indicator, operator, value) ==
    [indicator |-> indicator, indicator_type |-> "price", operator |-> operator,
     value |-> value, time_frame |-> DAILY, days |-> None]

\* Conditions a screening request is built from; each one passes ConditionModel.
ScreenConditions ==
    {c \in {Condition("close", GT, Scalar(1)),
            Condition("close", BETWEEN, ListOf(<<0, 1>>)),
            Condition("close", GT, ListOf(<<1, 2>>))} : ConditionModelAccepts(c)}

Markets == {Some("all"), Some("sh"), Some("sz"), Some("bj")}

Sorts == {[sort_by |-> None, sort_order |-> Some("desc")],
          [sort_by |-> Some("latest_price"), sort_order |-> Some("desc")],
          [sort_by |-> Some("symbol"), sort_order |-> Some("asc")]}

\* StrategyModel instances: name 1..100 chars, >= 1 condition, logic AND|OR,
\* max_stocks None or > 0.
Strategies ==
    {[name |-> "s", market |-> m, conditions |-> cs, logic |-> l,
      max_stocks |-> ms, sort_by |-> so.sort_by, sort_order |-> so.sort_order] :
        m \in Markets, cs \in SeqsOf(ScreenConditions, 1, MaxConds), l \in {"AND", "OR"},
        ms \in {None, Some(1)}, so \in Sorts}

\* Tables with (symbol, date) as primary key.
Tables(symbols, with_name) ==
    LET rows == {[symbol |-> sy, date |-> d, close |-> c,
                  name |-> IF with_name THEN IndexName(sy) ELSE ""] :
                    sy \in symbols, d \in Dates, c \in CloseValues}
    IN  {t \in SUBSET rows :
            /\ Cardinality(t) <= MaxRows
            /\ \A a, b \in t : (a.symbol = b.symbol /\ a.date = b.date) => a = b}

-----------------------------------------------------------------------------
(* Screening specification *)

ScreenIdle ==
    /\ stock_daily_data = {}
    /\ index_daily_data = {}
    /\ strategy = None
    /\ target = "none"
    /\ screen_out = None

CompileIdle ==
    /\ cond = None
    /\ cpc = "idle"
    /\ compiled = None
    /\ probe = None

InfoIdle ==
    /\ stock_basic_info = <<>>
    /\ info_before = <<>>
    /\ info_log = <<>>

LoopIdle ==
    /\ loop_strategy = None
    /\ loop_clauses = <<>>
    /\ condition_params = <<>>
    /\ bound_params = None

EndpointIdle ==
    /\ body = None
    /\ endpoint = "none"
    /\ target_type = ""
    /\ epc = "idle"
    /\ ep_model = None
    /\ ep_errors = None
    /\ http = None
    /\ trace = <<>>

TestIdle ==
    /\ test_args = None
    /\ lib_out = None
    /\ test_result = None

GrangerIdle ==
    /\ stock_info = None
    /\ fetch_fails = {}
    /\ stock_kline = <<>>
    /\ index_kline = <<>>
    /\ request = None
    /\ gpc = "idle"
    /\ indices = <<>>
    /\ results = <<>>
    /\ response = None
    /\ queries = <<>>
    /\ processed = <<>>
    /\ lib_calls = <<>>
    /\ aligned = None

ScreenInit ==
    /\ InfoIdle
    /\ LoopIdle
    /\ TestIdle
    /\ EndpointIdle
    /\ CompileIdle
    /\ GrangerIdle
    /\ \/ stock_daily_data \in Tables(StockSymbols, FALSE) /\ index_daily_data = {}
       \/ stock_daily_data = {} /\ index_daily_data \in Tables(IndexSymbols, TRUE)
    /\ strategy = None
    /\ target = "none"
    /\ screen_out = None

\* StrategyService.execute_stock_strategy -> execute_stock_strategy(db, strategy)
ExecuteStockStrategy ==
    /\ strategy = None
    /\ \E s \in Strategies : \E out \in execute_stock_strategy(stock_daily_data, s) :
        /\ strategy' = Some(s)
        /\ target' = "stock"
        /\ screen_out' = Some(out)
    /\ UNCHANGED <<stock_daily_data, index_daily_data, compile_vars, granger_vars, test_vars, endpoint_vars, loop_vars, info_vars>>

\* StrategyService.execute_index_strategy -> execute_index_strategy(db, strategy)
ExecuteIndexStrategy ==
    /\ strategy = None
    /\ \E s \in Strategies : \E out \in execute_index_strategy(index_daily_data, s) :
        /\ strategy' = Some(s)
        /\ target' = "index"
        /\ screen_out' = Some(out)
    /\ UNCHANGED <<stock_daily_data, index_daily_data, compile_vars, granger_vars, test_vars, endpoint_vars, loop_vars, info_vars>>

\* The response has been sent; request-scoped objects are discarded.
ScreenReturn ==
    /\ strategy # None
    /\ strategy' = None
    /\ target' = "none"
    /\ screen_out' = None
    /\ UNCHANGED <<stock_daily_data, index_daily_data, compile_vars, granger_vars, test_vars, endpoint_vars, loop_vars, info_vars>>

ScreenNext == ExecuteStockStrategy \/ ExecuteIndexStrategy \/ ScreenReturn

Spec == ScreenInit /\ [][ScreenNext]_vars

-----------------------------------------------------------------------------
(* One condition: construction (ConditionModel), compilation                *)
(* (_build_condition_clause) and evaluation of the compiled predicate       *)

\* Largest number used as a threshold or list element.
MaxValue == 2

\* Largest condition index.
MaxIndex == 1

\* Longest value list tried.
MaxListLen == 3

\* What a client can send as operator: the enum's values and one that is not.
RawOperators == ComparisonOperator \cup {"=~"}

RawValues ==
    {Scalar(v) : v \in 0..MaxValue}
    \cup {ListOf(q) : q \in SeqsOf(0..MaxValue, 0, MaxListLen)}

\* days: absent, 1, or more than 1.
RawDays == {None, Some(1), Some(2)}

RawConditions ==
    {[indicator |-> "close", indicator_type |-> "price", operator |-> op, value |-> v,
      time_frame |-> tf, days |-> d] :
        op \in RawOperators, v \in RawValues, tf \in TimeFrame,
        d \in RawDays}

CompileInit ==
    /\ InfoIdle
    /\ LoopIdle
    /\ TestIdle
    /\ EndpointIdle
    /\ ScreenIdle
    /\ GrangerIdle
    /\ \E c \in RawConditions, i \in 0..MaxIndex, ix \in BOOLEAN :
        cond = Some([condition |-> c, index |-> i, is_index |-> ix])
    /\ cpc = "raw"
    /\ compiled = None
    /\ probe = None

\* ConditionModel(**data): pydantic builds the model or raises a validation error.
Construct ==
    /\ cpc = "raw"
    /\ cpc' = IF ConditionModelAccepts(cond[1].condition) THEN "accepted" ELSE "rejected"
    /\ UNCHANGED <<cond, compiled, probe, screen_vars, granger_vars, test_vars, endpoint_vars, loop_vars, info_vars>>

\* _build_condition_clause(condition, index, is_index) on a constructed model.
Compile ==
    /\ cpc = "accepted"
    /\ compiled' = Some(build_condition_clause(cond[1].condition, cond[1].index,
                                               cond[1].is_index))
    /\ cpc' = "compiled"
    /\ UNCHANGED <<cond, probe, screen_vars, granger_vars, test_vars, endpoint_vars, loop_vars, info_vars>>

\* PostgreSQL evaluates the compiled predicate, with its parameters bound, on a
\* row whose indicator column holds r.
Evaluate ==
    /\ cpc = "compiled"
    /\ \E r \in 0..(MaxValue + 1) :
        LET groups == <<Group("AND", <<compiled[1].clause>>)>>
        IN  probe' = Some([row |-> r,
                           outcome |->
                               IF BindTypeError(groups, compiled[1].params) THEN "db_error"
                               ELSE IF EvalWhere(groups, compiled[1].params, [close |-> r])
                               THEN "true" ELSE "false"])
    /\ cpc' = "evaluated"
    /\ UNCHANGED <<cond, compiled, screen_vars, granger_vars, test_vars, endpoint_vars, loop_vars, info_vars>>

CompileNext == Construct \/ Compile \/ Evaluate

SpecCompile == CompileInit /\ [][CompileNext]_vars

-----------------------------------------------------------------------------
(* backend/services/granger_service.py: get_stock_index_data (Series Aligner) *)

\* The elements of a sequence.
Range(q) == {q[i] : i \in 1..Len(q)}

\* pd.to_datetime on a calendar day (a day number): midnight of that day, in
\* seconds.
to_datetime(d) == d * 86400

\* pd.DataFrame(kline) with its 'date' column converted and made the index.
DataFrame(kline) ==
    [i \in 1..Len(kline) |->
        [date |-> to_datetime(kline[i].date), close |-> kline[i].close,
         volume |-> kline[i].volume]]

\* df.loc[labels]: the rows of df with these index labels, in the labels' order.
Loc(df, labels) ==
    [i \in 1..Len(labels) |-> CHOOSE r \in Range(df) : r.date = labels[i]]

\* sort_index keeping the order it is given.
sort_index_noop(df) == df

\* df.sort_index(): the rows in ascending order of the (unique) index labels.
sort_index(df) ==
    [i \in 1..Len(df) |->
        CHOOSE r \in Range(df) : Cardinality({o \in Range(df) : o.date < r.date}) = i - 1]

\* df['close']: the close column as a Series (index label, value).
CloseSeries(df) == [i \in 1..Len(df) |-> [date |-> df[i].date, close |-> df[i].close]]

\* return pd.Series(), pd.Series()
EmptyPair == [raised |-> FALSE, stock |-> <<>>, index |-> <<>>]

\* An exception leaves get_stock_index_data.
RaisedPair == [raised |-> TRUE, stock |-> <<>>, index |-> <<>>]

\* Lines 158-188: both row lists are non-empty.
AlignFrames(s_kline, i_kline, exclude_suspension) ==
      LET stock_df0 == DataFrame(s_kline)
          index_df0 == DataFrame(i_kline)
          Trading(r) == r.volume > 0
          \* stock_df[stock_df['volume'] > 0].index
          non_suspension_dates == {r.date : r \in {x \in Range(stock_df0) : Trading(x)}}
          InNonSuspension(r) == r.date \in non_suspension_dates
          stock_df1 == IF exclude_suspension THEN SelectSeq(stock_df0, Trading)
                       ELSE stock_df0
          index_df1 == IF exclude_suspension THEN SelectSeq(index_df0, InNonSuspension)
                       ELSE index_df0
          InIndex(r) == \E o \in Range(index_df1) : o.date = r.date
          \* stock_df.index.intersection(index_df.index)
          common_rows == SelectSeq(stock_df1, InIndex)
          common_dates == [i \in 1..Len(common_rows) |-> common_rows[i].date]
          stock_df2 == sort_index(Loc(stock_df1, common_dates))
          index_df2 == sort_index(Loc(index_df1, common_dates))
      IN  [raised |-> FALSE, stock |-> CloseSeries(stock_df2),
           index |-> CloseSeries(index_df2)]

\* get_stock_index_data without the two "if not ...: return" guards: the frame
\* built from no rows has no 'date' column, and reading it raises KeyError.
get_stock_index_data_unguarded(s_kline, i_kline, exclude_suspension) ==
    IF s_kline = <<>> \/ i_kline = <<>> THEN RaisedPair
    ELSE AlignFrames(s_kline, i_kline, exclude_suspension)

\* get_stock_index_data after the two fetches (lines 150-188).
get_stock_index_data(s_kline, i_kline, exclude_suspension) ==
    IF s_kline = <<>> THEN EmptyPair
    ELSE IF i_kline = <<>> THEN EmptyPair
    ELSE AlignFrames(s_kline, i_kline, exclude_suspension)

-----------------------------------------------------------------------------
(* The aligner alone, on every small pair of fetched row lists *)

\* Most rows fetched for the stock.
MaxStockRows == 3

\* Most rows fetched for the index.
MaxIndexRows == 4

StockDays == {1, 2, 3}

IndexDays == {1, 2, 3, 4}

Volumes == {0, 5}

\* Row lists with one row per day (the tables' primary key is (symbol, date)),
\* in any order.
DistinctDays(q) == \A i, j \in 1..Len(q) : i # j => q[i].date # q[j].date

StockKlines ==
    {q \in SeqsOf({[date |-> d, close |-> 10 + d, volume |-> v] :
                      d \in StockDays, v \in Volumes}, 0, MaxStockRows) : DistinctDays(q)}

IndexKlines ==
    UNION {{q \in SeqsOf({[date |-> d, close |-> 20 + d, volume |-> v] : d \in IndexDays},
                          0, MaxIndexRows) : DistinctDays(q)} : v \in Volumes}

AlignInit ==
    /\ InfoIdle
    /\ LoopIdle
    /\ TestIdle
    /\ EndpointIdle
    /\ ScreenIdle
    /\ CompileIdle
    /\ stock_info = None
    /\ fetch_fails = {}
    /\ stock_kline \in StockKlines
    /\ \E k \in IndexKlines : index_kline = [ix \in {"idxA"} |-> k]
    /\ request = None
    /\ gpc = "idle"
    /\ indices = <<>>
    /\ results = <<>>
    /\ response = None
    /\ queries = <<>>
    /\ processed = <<>>
    /\ lib_calls = <<>>
    /\ aligned = None

\* self.get_stock_index_data(db, stock_symbol, index_symbol, exclude_suspension)
Align ==
    /\ aligned = None
    /\ \E ex \in BOOLEAN :
        aligned' = Some([exclude_suspension |-> ex,
                         out |-> get_stock_index_data(stock_kline, index_kline["idxA"], ex)])
    /\ UNCHANGED <<stock_info, fetch_fails, stock_kline, index_kline, request, gpc, indices, results,
                   response, queries, processed, lib_calls, screen_vars, compile_vars, test_vars, endpoint_vars, loop_vars, info_vars>>

AlignNext == Align

SpecAlign == AlignInit /\ [][AlignNext]_vars

-----------------------------------------------------------------------------
(* backend/services/granger_service.py: run_granger_test *)

\* np.log of a price: a number, -inf for 0, NaN for a negative price.
LogKind(price) == IF price > 0 THEN "finite" ELSE IF price = 0 THEN "neginf" ELSE "nan"

\* The log-return ln(num) - ln(den): NaN when either logarithm is NaN or both
\* are -inf, infinite when exactly one is -inf.
ReturnKind(r) ==
    LET a == LogKind(r.num)
        b == LogKind(r.den)
    IN  IF a = "nan" \/ b = "nan" THEN "nan"
        ELSE IF a = "neginf" /\ b = "neginf" THEN "nan"
        ELSE IF a = "neginf" \/ b = "neginf" THEN "inf"
        ELSE "finite"

\* np.log(series).diff().dropna(): one log-return per consecutive pair,
\* ln(num / den), labelled with the later date; the first row (no earlier
\* price) and every NaN return are dropped.
LogDiff(series) ==
    LET NotNa(r) == ReturnKind(r) # "nan"
    IN  SelectSeq([i \in 1..(Len(series) - 1) |->
                     [date |-> series[i + 1].date, num |-> series[i + 1].close,
                      den |-> series[i].close]],
                  NotNa)

\* The (F, p) pairs the library may report for one lag; p in hundredths.
LibStats ==
    {[f_value |-> 9, p_value |-> 1], [f_value |-> 3, p_value |-> 5],
     [f_value |-> 1, p_value |-> 9]}

\* The labels of a column.
ColumnDates(column) == {r.date : r \in Range(column)}

\* DataFrame.apply puts the two columns side by side on the union of their
\* labels: a label only one column has is NaN in the other.
FrameRows(data) == ColumnDates(data[1]) \cup ColumnDates(data[2])

\* The frame holds a NaN or an infinite entry.
NonFinite(data) ==
    \/ ColumnDates(data[1]) # ColumnDates(data[2])
    \/ \E c \in 1..2 : \E r \in Range(data[c]) : ReturnKind(r) = "inf"

\* The regression statsmodels' grangercausalitytests fits on a two-column
\* array: the FIRST column is the dependent variable, regressed on its own lags
\* (restricted) and on its own lags plus the lags of the SECOND column
\* (unrestricted); it tests whether column 2 Granger-causes column 1.
FittedRegression(data) ==
    [dependent |-> data[1], own_lags_of |-> data[1], added_lags_of |-> data[2]]

\* grangercausalitytests(data, maxlag=max_lag): it raises on a NaN or infinite
\* entry, raises when there are too few observations for maxlag and may raise
\* on degenerate data; otherwise it reports one (F, p) pair per lag 1..maxlag.
grangercausalitytests(data, maxlag) ==
    IF NonFinite(data) \/ Cardinality(FrameRows(data)) <= 3 * maxlag + 1
    THEN {[raised |-> TRUE, ssr_ftest |-> <<>>]}
    ELSE {[raised |-> TRUE, ssr_ftest |-> <<>>]}
         \cup {[raised |-> FALSE, ssr_ftest |-> st] : st \in [1..maxlag -> LibStats]}

\* A min_p_value that is the p-value of lag 1 whatever the other lags hold.
MinOfFirstLag(q) == q[1]

\* min(list) of a non-empty list of numbers.
MinOf(q) == CHOOSE m \in Range(q) : \A o \in Range(q) : m <= o

\* The except branch returning its default verdict without the message.
ErrorResultSilent ==
    [error |-> None, lags |-> <<>>,
     conclusion |-> [has_causality |-> FALSE, significant_lags |-> <<>>,
                     min_p_value |-> None]]

\* The dict returned by the except branch.
ErrorResult ==
    [error |-> Some("error"), lags |-> <<>>,
     conclusion |-> [has_causality |-> FALSE, significant_lags |-> <<>>,
                     min_p_value |-> None]]

\* SuccessResult with "p_value <= significance_level" as the significance test.
SuccessResultLoose(ssr_ftest, max_lag, significance_level) ==
    LET lags == [lag \in 1..max_lag |->
                    [f_value |-> ssr_ftest[lag].f_value,
                     p_value |-> ssr_ftest[lag].p_value,
                     is_significant |-> ssr_ftest[lag].p_value <= significance_level]]
        IsSignificant(lag) == lags[lag].is_significant
        significant_lags == SelectSeq([lag \in 1..max_lag |-> lag], IsSignificant)
    IN  [error |-> None, lags |-> lags,
         conclusion |-> [has_causality |-> Len(significant_lags) > 0,
                         significant_lags |-> significant_lags,
                         min_p_value |->
                             Some(MinOf([lag \in 1..max_lag |-> lags[lag].p_value]))]]

\* The dict built by the try branch from test_result: lags[L] is 'lag_<L>'.
SuccessResult(ssr_ftest, max_lag, significance_level) ==
    LET lags == [lag \in 1..max_lag |->
                    [f_value |-> ssr_ftest[lag].f_value,
                     p_value |-> ssr_ftest[lag].p_value,
                     is_significant |-> ssr_ftest[lag].p_value < significance_level]]
        IsSignificant(lag) == lags[lag].is_significant
        significant_lags == SelectSeq([lag \in 1..max_lag |-> lag], IsSignificant)
    IN  [error |-> None, lags |-> lags,
         conclusion |-> [has_causality |-> Len(significant_lags) > 0,
                         significant_lags |-> significant_lags,
                         min_p_value |->
                             Some(MinOf([lag \in 1..max_lag |-> lags[lag].p_value]))]]

\* The array run_granger_test hands to the library: columns ['x', 'y'], each
\* log-differenced.
TestData(x_series, y_series) == <<LogDiff(x_series), LogDiff(y_series)>>

\* ResultOf with the loops over range(1, max_lag): the last lag is left out,
\* and with max_lag = 1 min() of the empty list raises into the except branch.
ResultOfShortRange(t, max_lag, significance_level) ==
    IF t.raised \/ max_lag = 1 THEN ErrorResult
    ELSE SuccessResult(t.ssr_ftest, max_lag - 1, significance_level)

\* Lines 212-251: what run_granger_test returns once the library call has
\* raised or returned t.
ResultOf(t, max_lag, significance_level) ==
    IF t.raised THEN ErrorResult
    ELSE SuccessResult(t.ssr_ftest, max_lag, significance_level)

\* run_granger_test(x_series, y_series, max_lag, significance_level): every
\* result it can return.
run_granger_test(x_series, y_series, max_lag, significance_level) ==
    {ResultOf(t, max_lag, significance_level) :
        t \in grangercausalitytests(TestData(x_series, y_series), max_lag)}

-----------------------------------------------------------------------------
(* backend/services/granger_service.py: execute_granger_test *)

\* Largest max_lag requested.
MaxLag == 1

IndexPool == {"idxA", "idxB"}

\* Daily rows for the given days, in date order; the days in zero have volume 0.
Kline(days, base, zero) ==
    [i \in 1..Cardinality(days) |->
        LET d == CHOOSE x \in days : Cardinality({y \in days : y < x}) = i - 1
        IN  [date |-> d, close |-> base + d, volume |-> IF d \in zero THEN 0 ELSE 5]]

GrangerStockKlines ==
    {<<>>, Kline(1..6, 10, {}), Kline(1..6, 10, {1}), Kline(1..6, 10, 1..6)}

GrangerIndexKlines == {<<>>, Kline(1..6, 20, {})}

\* GrangerRequest: max_lag in 1..20, significance_level in (0, 1) (hundredths).
Requests ==
    {[stock_symbol |-> "stock", max_lag |-> ml, test_direction |-> td,
      significance_level |-> 5, exclude_suspension |-> ex] :
        ml \in 1..MaxLag, td \in {"stock_to_index", "index_to_stock", "both"},
        ex \in BOOLEAN}

Query(kind, symbol) == [kind |-> kind, symbol |-> symbol]

GrangerInit ==
    /\ InfoIdle
    /\ LoopIdle
    /\ TestIdle
    /\ EndpointIdle
    /\ ScreenIdle
    /\ CompileIdle
    /\ stock_info \in {None, Some([name |-> "Stock Co"])}
    /\ stock_kline \in GrangerStockKlines
    /\ \E known \in SUBSET IndexPool : index_kline \in [known -> GrangerIndexKlines]
    /\ fetch_fails \in SUBSET DOMAIN index_kline
    /\ request \in {Some(r) : r \in Requests}
    /\ gpc = "start"
    /\ indices = <<>>
    /\ results = <<>>
    /\ response = None
    /\ queries = <<>>
    /\ processed = <<>>
    /\ lib_calls = <<>>
    /\ aligned = None

\* The stock is never taken to be missing.
StockMissingNever(info) == FALSE

\* "if not stock_info: raise ValueError"
StockMissing(info) == info = None

\* Lines 54-56: look the stock up; an unknown stock raises ValueError.
GetStockInfo ==
    /\ gpc = "start"
    /\ queries' = Append(queries, Query("get_stock_info", request[1].stock_symbol))
    /\ gpc' = IF StockMissing(stock_info) THEN "not_found" ELSE "read_indices"
    /\ UNCHANGED <<stock_info, fetch_fails, stock_kline, index_kline, request, indices, results,
                   response, processed, lib_calls, aligned, screen_vars, compile_vars, test_vars, endpoint_vars, loop_vars, info_vars>>

\* Lines 59-63: SELECT DISTINCT symbol, name FROM index_daily_data, in whatever
\* order the server returns the rows.
ReadIndices ==
    /\ gpc = "read_indices"
    /\ queries' = Append(queries, Query("indices", ""))
    /\ indices' \in Enumerations(DOMAIN index_kline)
    /\ results' = <<>>
    /\ gpc' = "loop"
    /\ UNCHANGED <<stock_info, fetch_fails, stock_kline, index_kline, request, response, processed,
                   lib_calls, aligned, screen_vars, compile_vars, test_vars, endpoint_vars, loop_vars, info_vars>>

\* "except Exception as e: print(...); continue" with the exception leaving
\* execute_granger_test instead.
AfterIndexErrorAbort == "crashed"

\* "except Exception as e: print(...); continue": the loop goes on.
AfterIndexError == "loop"

\* A direction that was not requested filled with an error result.
NotRequestedFilled == {Some(ErrorResult)}

\* The value a direction's field keeps when that direction is not requested.
NotRequested == {None}

\* Lines 66-113: the loop body for the next index.
ProcessIndex ==
    /\ gpc = "loop"
    /\ indices # <<>>
    /\ LET index_symbol == Head(indices)
           req == request[1]
           \* get_stock_index_data: the stock fetch, then (stock rows found) the index fetch
           fetches == <<Query("stock_kline", req.stock_symbol)>>
                      \o (IF stock_kline # <<>> THEN <<Query("index_kline", index_symbol)>>
                          ELSE <<>>)
           s2i == req.test_direction \in {"stock_to_index", "both"}
           i2s == req.test_direction \in {"index_to_stock", "both"}
       IN  \E data \in {IF stock_kline # <<>> /\ index_symbol \in fetch_fails
                          THEN RaisedPair
                          ELSE get_stock_index_data(stock_kline, index_kline[index_symbol],
                                                    req.exclude_suspension)} :
           \E stock_data \in {data.stock}, index_data \in {data.index} :
           /\ queries' = queries \o fetches
           /\ indices' = Tail(indices)
           /\ gpc' = IF data.raised THEN AfterIndexError ELSE "loop"
           /\ IF data.raised
              THEN \* except Exception: print and continue
                   /\ results' = results
                   /\ processed' = Append(processed, [index_symbol |-> index_symbol,
                                                      outcome |-> "skipped_error",
                                                      data |-> data])
                   /\ lib_calls' = lib_calls
              ELSE IF stock_data = <<>> \/ index_data = <<>>
              THEN /\ results' = results
                   /\ processed' = Append(processed, [index_symbol |-> index_symbol,
                                                      outcome |-> "skipped_empty",
                                                      data |-> data])
                   /\ lib_calls' = lib_calls
              ELSE /\ \E r1 \in (IF s2i THEN {Some(r) : r \in
                                     run_granger_test(stock_data, index_data, req.max_lag,
                                                      req.significance_level)}
                                 ELSE NotRequested),
                         r2 \in (IF i2s THEN {Some(r) : r \in
                                     run_granger_test(index_data, stock_data, req.max_lag,
                                                      req.significance_level)}
                                 ELSE NotRequested) :
                        results' = Append(results,
                                          [index_symbol |-> index_symbol,
                                           index_name |-> index_symbol,
                                           stock_to_index_result |-> r1,
                                           index_to_stock_result |-> r2])
                   /\ processed' = Append(processed, [index_symbol |-> index_symbol,
                                                      outcome |-> "appended",
                                                      data |-> data])
                   /\ lib_calls' = lib_calls
                        \o (IF s2i
                            THEN <<[index_symbol |-> index_symbol,
                                    direction |-> "stock_to_index",
                                    stock |-> LogDiff(stock_data),
                                    index |-> LogDiff(index_data),
                                    fitted |-> FittedRegression(TestData(stock_data,
                                                                         index_data))]>>
                            ELSE <<>>)
                        \o (IF i2s
                            THEN <<[index_symbol |-> index_symbol,
                                    direction |-> "index_to_stock",
                                    stock |-> LogDiff(stock_data),
                                    index |-> LogDiff(index_data),
                                    fitted |-> FittedRegression(TestData(index_data,
                                                                         stock_data))]>>
                            ELSE <<>>)
    /\ UNCHANGED <<stock_info, fetch_fails, stock_kline, index_kline, request, response,
                   aligned, screen_vars, compile_vars, test_vars, endpoint_vars, loop_vars, info_vars>>

\* Lines 116-128: the loop is over; build the GrangerResponse.
BuildResponse ==
    /\ gpc = "loop"
    /\ indices = <<>>
    /\ IF stock_info = None
       THEN gpc' = "crashed" /\ response' = response
       ELSE /\ response' = Some([stock_symbol |-> request[1].stock_symbol,
                                 stock_name |-> stock_info[1].name,
                                 max_lag |-> request[1].max_lag,
                                 significance_level |-> request[1].significance_level,
                                 results |-> results])
            /\ gpc' = "done"
    /\ UNCHANGED <<stock_info, fetch_fails, stock_kline, index_kline, request, indices, results,
                   queries, processed, lib_calls, aligned, screen_vars, compile_vars, test_vars, endpoint_vars, loop_vars, info_vars>>

GrangerNext == GetStockInfo \/ ReadIndices \/ ProcessIndex \/ BuildResponse

SpecGranger == GrangerInit /\ [][GrangerNext]_vars

-----------------------------------------------------------------------------
(* run_granger_test called on its own *)

\* Largest max_lag passed to run_granger_test.
MaxTestLag == 3

\* Enough prices for the library to accept MaxTestLag.
TestLen == 3 * MaxTestLag + 3

\* n daily closes base+1, base+2, ...; the close of bad_day is bad_price.
Prices(n, base, bad_day, bad_price) ==
    [i \in 1..n |-> [date |-> i, close |-> IF i = bad_day THEN bad_price ELSE base + i]]

\* Close series: too short or long enough; all positive, or with a zero or a
\* negative close on one day.
TestSeries(base) ==
    {Prices(n, base, bad[1], bad[2]) :
        n \in {3, TestLen}, bad \in {<<0, 0>>, <<2, 0>>, <<2, -1>>, <<3, -1>>}}

\* Two series over the same dates, max_lag, significance_level (hundredths).
TestArgs ==
    {a \in [x_series : TestSeries(10), y_series : TestSeries(20),
            max_lag : 1..MaxTestLag, significance_level : {5, 6}] :
        Len(a.x_series) = Len(a.y_series)}

TestInit ==
    /\ InfoIdle
    /\ LoopIdle
    /\ EndpointIdle
    /\ ScreenIdle
    /\ CompileIdle
    /\ GrangerIdle
    /\ test_args \in {Some(a) : a \in TestArgs}
    /\ lib_out = None
    /\ test_result = None

\* self.run_granger_test(x_series, y_series, max_lag, significance_level)
RunGrangerTest ==
    /\ test_args # None
    /\ test_result = None
    /\ LET a == test_args[1]
       IN  \E t \in grangercausalitytests(TestData(a.x_series, a.y_series), a.max_lag) :
            /\ lib_out' = Some(t)
            /\ test_result' = Some(ResultOf(t, a.max_lag, a.significance_level))
    /\ UNCHANGED <<test_args, screen_vars, compile_vars, granger_vars, endpoint_vars, loop_vars, info_vars>>

TestNext == RunGrangerTest

SpecTest == TestInit /\ [][TestNext]_vars

-----------------------------------------------------------------------------
(* backend/services/strategy_service.py and backend/api/strategy_api.py:    *)
(* the strategy execution endpoints                                         *)

\* Most conditions in a request body.
MaxEndpointConds == 2

\* str.strip() on the names and indicators clients send.
Strip(str) == CASE str = " " -> "" [] str = " s " -> "s" [] OTHER -> str

\* str.lower() on the target_type values clients send.
Lower(str) == CASE str = "STOCK" -> "stock" [] str = "Index" -> "index" [] OTHER -> str

\* A condition's value that is missing or null.
NoValue == [isList |-> FALSE, items |-> <<>>]

\* StrategyModel(**body): pydantic collects one error per failing field (loc
\* ends in the field; conditions are numbered from 0) and raises them together.
\* name has min_length 1, conditions min_items 1; a condition's value must be
\* there and pass validate_value.
RECURSIVE PydanticConditionErrors(_, _)
PydanticConditionErrors(conditions, n) ==
    IF n = 0 THEN <<>>
    ELSE PydanticConditionErrors(conditions, n - 1)
         \o (IF conditions[n].value = NoValue \/ ~ConditionModelAccepts(conditions[n])
             THEN <<[field |-> "value", index |-> n - 1]>>
             ELSE <<>>)

PydanticErrors(b) ==
    (IF b.name = "" THEN <<[field |-> "name", index |-> 0]>> ELSE <<>>)
    \o (IF b.conditions = <<>> THEN <<[field |-> "conditions", index |-> 0]>> ELSE <<>>)
    \o PydanticConditionErrors(b.conditions, Len(b.conditions))

\* The StrategyModel built from a body that passed; the fields the body leaves
\* out take their defaults.
StrategyModelOf(b) ==
    [name |-> b.name, market |-> Some("all"), conditions |-> b.conditions,
     logic |-> "AND", max_stocks |-> None, sort_by |-> None, sort_order |-> Some("desc")]

\* validate_strategy's loop over the first n conditions ("条件 {i+1}: ...").
RECURSIVE ValidateConditions(_, _)
ValidateConditions(conditions, n) ==
    IF n = 0 THEN <<>>
    ELSE ValidateConditions(conditions, n - 1)
         \o (IF conditions[n].indicator = "" \/ Strip(conditions[n].indicator) = ""
             THEN <<[field |-> "indicator", number |-> n]>>
             ELSE <<>>)
         \o (IF conditions[n].value = NoValue
             THEN <<[field |-> "value", number |-> n]>>
             ELSE <<>>)

\* StrategyService.validate_strategy(strategy): the list of errors.
validate_strategy(s) ==
    (IF s.name = "" \/ Strip(s.name) = "" THEN <<[field |-> "name", number |-> 0]>>
     ELSE <<>>)
    \o (IF s.conditions = <<>> THEN <<[field |-> "conditions", number |-> 0]>> ELSE <<>>)
    \o ValidateConditions(s.conditions, Len(s.conditions))

\* execute_strategy's branches with every other target_type run as "stock".
TargetOfDefaultStock(t) == IF Lower(t) = "index" THEN "index" ELSE "stock"

\* StrategyService.execute_strategy: the branch target_type selects.
TargetOf(t) ==
    IF Lower(t) = "stock" THEN "stock"
    ELSE IF Lower(t) = "index" THEN "index"
    ELSE "unsupported"

\* What execute_stock_strategy / execute_index_strategy do before returning:
\* one _build_condition_clause per condition, then pd.read_sql.
QueryTrace(s) == [k \in 1..Len(s.conditions) |-> "_build_condition_clause"] \o <<"read_sql">>

\* The store the endpoints read.
EndpointStockTable ==
    {[symbol |-> <<6, 0, 0>>, date |-> 1, close |-> 2, name |-> ""],
     [symbol |-> <<0, 0, 1>>, date |-> 1, close |-> 1, name |-> ""]}

EndpointIndexTable ==
    {[symbol |-> <<0, 0, 1>>, date |-> 1, close |-> 2, name |-> IndexName(<<0, 0, 1>>)],
     [symbol |-> <<3, 9, 9>>, date |-> 1, close |-> 1, name |-> IndexName(<<3, 9, 9>>)]}

\* The service call for a target: the exception that leaves it ("" for none),
\* what it returned, and the compile and store calls it made.
ServiceOutcomes(kind, s) ==
    IF kind = "unsupported"
    THEN {[raised |-> "ValueError", result |-> None, calls |-> <<>>]}
    ELSE {[raised |-> IF out.status = "ok" THEN "" ELSE "DBAPIError",
           result |-> IF out.status = "ok" THEN Some(out) ELSE None,
           calls |-> QueryTrace(s)] :
            out \in (IF kind = "stock" THEN execute_stock_strategy(EndpointStockTable, s)
                     ELSE execute_index_strategy(EndpointIndexTable, s))}

Reply(status, detail, errors, result) ==
    [status |-> status, detail |-> detail, errors |-> errors, result |-> result]

\* The handlers' except clauses: "except ValueError" answers 400 and "except
\* Exception" answers 500, both with detail=str(e). HTTPException is an
\* Exception and not a ValueError.
ExceptReply(exception) ==
    IF exception = "ValueError" THEN Reply(400, "text", <<>>, None)
    ELSE Reply(500, "text", <<>>, None)

\* The body of the three handlers' try block and its except clauses, for the
\* service call that serves the request.
HandlerReplies(s, kind) ==
    LET errors == validate_strategy(s)
    IN  IF errors # <<>>
        THEN \* raise HTTPException(status_code=400, detail={"errors": errors})
             {[http |-> ExceptReply("HTTPException"), calls |-> <<>>]}
        ELSE {[http |-> IF o.raised = "" THEN Reply(200, "result", <<>>, o.result)
                        ELSE ExceptReply(o.raised),
               calls |-> o.calls] : o \in ServiceOutcomes(kind, s)}

\* Request bodies: name empty, blank or given; conditions none, or with a blank
\* indicator, a missing value, or between bounds that are well or ill formed.
EndpointConditions ==
    {Condition(ind, ov[1], ov[2]) :
        ind \in {" ", "close"},
        ov \in {<<GT, Scalar(1)>>, <<GT, NoValue>>, <<BETWEEN, ListOf(<<0, 1>>)>>,
                <<BETWEEN, ListOf(<<1, 0>>)>>}}

Bodies ==
    [name : {"", " ", "s"}, conditions : SeqsOf(EndpointConditions, 0, MaxEndpointConds)]

TargetTypes == {"stock", "index", "STOCK", "Index", "fund", ""}

EndpointInit ==
    /\ InfoIdle
    /\ LoopIdle
    /\ ScreenIdle
    /\ CompileIdle
    /\ GrangerIdle
    /\ TestIdle
    /\ body \in {Some(b) : b \in Bodies}
    /\ endpoint \in {"execute", "execute_stock", "execute_index"}
    /\ target_type \in (IF endpoint = "execute" THEN TargetTypes ELSE {""})
    /\ epc = "received"
    /\ ep_model = None
    /\ ep_errors = None
    /\ http = None
    /\ trace = <<>>

\* FastAPI builds the StrategyModel from the body before the handler runs; a
\* validation error is answered with 422 and the list of errors.
ParseBody ==
    /\ epc = "received"
    /\ LET errors == PydanticErrors(body[1])
       IN  IF errors # <<>>
           THEN /\ http' = Some(Reply(422, "errors", errors, None))
                /\ epc' = "responded"
                /\ ep_model' = None
           ELSE /\ ep_model' = Some(StrategyModelOf(body[1]))
                /\ epc' = "parsed"
                /\ http' = None
    /\ UNCHANGED <<body, endpoint, target_type, ep_errors, trace,
                   screen_vars, compile_vars, granger_vars, test_vars, loop_vars, info_vars>>

\* The handler of service_call: validate, execute, answer.
Handle(service_call, kind) ==
    /\ epc = "parsed"
    /\ ep_errors' = Some(validate_strategy(ep_model[1]))
    /\ \E r \in HandlerReplies(ep_model[1], kind) :
        /\ http' = Some(r.http)
        /\ trace' = <<"validate_strategy">>
                    \o (IF validate_strategy(ep_model[1]) = <<>>
                        THEN <<service_call>> \o r.calls ELSE <<>>)
    /\ epc' = "responded"
    /\ UNCHANGED <<body, endpoint, target_type, ep_model,
                   screen_vars, compile_vars, granger_vars, test_vars, loop_vars, info_vars>>

\* POST /strategies/execute
ExecuteEndpoint ==
    /\ endpoint = "execute"
    /\ Handle("execute_strategy", TargetOf(target_type))

\* POST /strategies/execute/stock
ExecuteStockEndpoint ==
    /\ endpoint = "execute_stock"
    /\ Handle("execute_stock_strategy", "stock")

\* POST /strategies/execute/index
ExecuteIndexEndpoint ==
    /\ endpoint = "execute_index"
    /\ Handle("execute_index_strategy", "index")

EndpointNext == ParseBody \/ ExecuteEndpoint \/ ExecuteStockEndpoint \/ ExecuteIndexEndpoint

SpecEndpoint == EndpointInit /\ [][EndpointNext]_vars

-----------------------------------------------------------------------------
(* The condition loop of the two queries: names and bindings *)

\* Most conditions in a strategy whose parameters are named.
MaxLoopConds == 11

\* str(index): the decimal digits of a non-negative int.
RECURSIVE Digits(_)
Digits(n) ==
    LET d == CASE n % 10 = 0 -> "0" [] n % 10 = 1 -> "1" [] n % 10 = 2 -> "2"
               [] n % 10 = 3 -> "3" [] n % 10 = 4 -> "4" [] n % 10 = 5 -> "5"
               [] n % 10 = 6 -> "6" [] n % 10 = 7 -> "7" [] n % 10 = 8 -> "8"
               [] OTHER -> "9"
    IN  IF n < 10 THEN <<d>> ELSE Digits(n \div 10) \o <<d>>

\* The characters of the name as the f-string writes it into the query text
\* and into the params dict: "value_", the index, the suffix.
ParamText(name) ==
    <<"v", "a", "l", "u", "e", "_">> \o Digits(name.index)
    \o (CASE name.suffix = "_low" -> <<"_", "l", "o", "w">>
          [] name.suffix = "_high" -> <<"_", "h", "i", "g", "h">>
          [] OTHER -> <<>>)

\* A params dict as Python holds it: keyed by the names' text.
TextKeyed(d) ==
    [k \in {ParamText(x) : x \in DOMAIN d} |-> d[CHOOSE x \in DOMAIN d : ParamText(x) = k]]

\* Strategies of n conditions: the k-th is "close > k" or, for k in between,
\* "close BETWEEN k AND k+1", so that every condition has values of its own.
LoopConditions(n, between) ==
    [k \in 1..n |-> IF k \in between THEN Condition("close", BETWEEN, ListOf(<<k, k + 1>>))
                    ELSE Condition("close", GT, Scalar(k))]

LoopInit ==
    /\ InfoIdle
    /\ ScreenIdle
    /\ CompileIdle
    /\ GrangerIdle
    /\ TestIdle
    /\ EndpointIdle
    /\ \E n \in 1..MaxLoopConds : \E between \in SUBSET (1..n) : \E is_index \in BOOLEAN :
        loop_strategy = Some([conditions |-> LoopConditions(n, between),
                              is_index |-> is_index])
    /\ loop_clauses = <<>>
    /\ condition_params = <<>>
    /\ bound_params = None

\* "for i, condition in enumerate(strategy.conditions)": compile each
\* condition, append its clause, merge its params (params start as {}).
ConditionLoop ==
    /\ loop_strategy # None
    /\ bound_params = None
    /\ LET s == loop_strategy[1]
           built == [k \in 1..Len(s.conditions) |->
                        build_condition_clause(s.conditions[k], k - 1, s.is_index)]
           RECURSIVE Merged(_)
           Merged(n) == IF n = 0 THEN <<>>
                        ELSE Update(Merged(n - 1), TextKeyed(built[n].params))
       IN  \E b \in {built} :
            /\ loop_clauses' = [k \in 1..Len(b) |-> b[k].clause]
            /\ condition_params' = [k \in 1..Len(b) |-> b[k].params]
            /\ bound_params' = Some(Merged(Len(b)))
    /\ UNCHANGED <<loop_strategy, screen_vars, compile_vars, granger_vars, test_vars,
                   endpoint_vars, info_vars>>

LoopNext == ConditionLoop

SpecLoop == LoopInit /\ [][LoopNext]_vars

-----------------------------------------------------------------------------
(* backend/database/stock_basic_info_queries.py,                            *)
(* backend/services/stock_basic_info_service.py and                         *)
(* backend/utils/stock_basic_info_updater.py: table stock_basic_info        *)

\* A symbol is text: an optional two-letter market prefix followed by the
\* digits of the code. "sh60" is InfoSymbol("sh", <<6, 0>>), "60" is
\* InfoSymbol("", <<6, 0>>).
InfoSymbol(prefix, code) == [prefix |-> prefix, code |-> code]

\* The empty text (or a missing 'symbol' key): "not symbol" is true.
NoSymbol == InfoSymbol("", <<>>)

\* ['sh', 'sz', 'bj'], in the order the service tries them.
MarketPrefixes == <<"sh", "sz", "bj">>

\* A row of the table: name is NOT NULL, the two volumes are nullable.
InfoRow(name, morning, closing) ==
    [name |-> name, morning_auction_volume |-> morning, closing_auction_volume |-> closing]

\* A stock_info dict: symbol, name, the two volumes.
InfoDict(symbol, name, morning, closing) ==
    [symbol |-> symbol, name |-> name,
     morning_auction_volume |-> morning, closing_auction_volume |-> closing]

\* get_stock_basic_info(db, symbol) of the queries module: SELECT ... WHERE
\* symbol = '<symbol>'; the row as a dict, None when there is no such row.
get_stock_basic_info(table, symbol) ==
    IF symbol \in DOMAIN table
    THEN Some(InfoDict(symbol, table[symbol].name,
                       table[symbol].morning_auction_volume,
                       table[symbol].closing_auction_volume))
    ELSE None

\* StockBasicInfoService.get_stock_basic_info: the direct lookup, then the
\* other symbol format: without the market prefix when the symbol has one,
\* else with 'sh', 'sz', 'bj' in turn until a row is found.
ServiceGetStockBasicInfo(table, symbol) ==
    LET direct == get_stock_basic_info(table, symbol)
        found == {i \in 1..Len(MarketPrefixes) :
                    InfoSymbol(MarketPrefixes[i], symbol.code) \in DOMAIN table}
        first == CHOOSE i \in found : \A o \in found : i <= o
    IN  IF direct # None THEN direct
        ELSE IF symbol.prefix \in Range(MarketPrefixes)
        THEN get_stock_basic_info(table, InfoSymbol("", symbol.code))
        ELSE IF found = {} THEN None
        ELSE get_stock_basic_info(table, InfoSymbol(MarketPrefixes[first], symbol.code))

\* An upsert that keeps the stored volume where the new one is NULL.
UpsertKeepingVolumes(table, record) ==
    LET old(s) == IF s \in DOMAIN table THEN table[s] ELSE InfoRow("", None, None)
        keep(new, stored) == IF new = None THEN stored ELSE new
    IN  [s \in (DOMAIN table) \cup {record.symbol} |->
            IF s = record.symbol
            THEN InfoRow(record.name,
                         keep(record.morning_auction_volume, old(s).morning_auction_volume),
                         keep(record.closing_auction_volume, old(s).closing_auction_volume))
            ELSE table[s]]

\* INSERT ... ON CONFLICT (symbol) DO UPDATE SET name = EXCLUDED.name,
\* morning_auction_volume = EXCLUDED..., closing_auction_volume = EXCLUDED...
Upsert(table, record) ==
    [s \in (DOMAIN table) \cup {record.symbol} |->
        IF s = record.symbol
        THEN InfoRow(record.name, record.morning_auction_volume,
                     record.closing_auction_volume)
        ELSE table[s]]

\* update_stock_basic_info(db, stock_info) of the queries module: False with
\* no write when there is no symbol; the upsert committed and True; rollback
\* and False when the database rejects the statement.
update_stock_basic_info(table, record, db_error) ==
    IF record.symbol = NoSymbol THEN [ok |-> FALSE, table |-> table]
    ELSE IF db_error THEN [ok |-> FALSE, table |-> table]
    ELSE [ok |-> TRUE, table |-> Upsert(table, record)]

\* The loop of batch_update_stock_basic_info after its first n records:
\* the table, and per record whether its write committed.
RECURSIVE BatchLoop(_, _, _, _)
BatchLoop(table, stock_info_list, db_errors, n) ==
    IF n = 0 THEN [table |-> table, committed |-> <<>>]
    ELSE LET sofar == BatchLoop(table, stock_info_list, db_errors, n - 1)
             r == update_stock_basic_info(sofar.table, stock_info_list[n], db_errors[n])
         IN  [table |-> r.table, committed |-> Append(sofar.committed, r.ok)]

\* A batch written as one transaction: any failing record undoes them all.
batch_update_single_transaction(table, stock_info_list, db_errors) ==
    LET done == BatchLoop(table, stock_info_list, db_errors, Len(stock_info_list))
    IN  IF \A k \in 1..Len(stock_info_list) : done.committed[k]
        THEN [table |-> done.table, committed |-> done.committed,
              success_count |-> Len(stock_info_list)]
        ELSE [table |-> table,
              committed |-> [k \in 1..Len(stock_info_list) |-> FALSE],
              success_count |-> 0]

\* batch_update_stock_basic_info(db, stock_info_list): db_errors[k] says
\* whether the database rejects the statement of record k.
batch_update_stock_basic_info(table, stock_info_list, db_errors) ==
    LET done == BatchLoop(table, stock_info_list, db_errors, Len(stock_info_list))
    IN  [table |-> done.table, committed |-> done.committed,
         success_count |-> Cardinality({k \in 1..Len(stock_info_list) : done.committed[k]})]

\* update_auction_volume(db, symbol, morning_volume, closing_volume).
update_auction_volume(table, symbol, morning_volume, closing_volume, db_error) ==
    LET found == ServiceGetStockBasicInfo(table, symbol)
        update_data ==
            InfoDict(symbol, found[1].name,
                     IF morning_volume = None THEN found[1].morning_auction_volume
                     ELSE morning_volume,
                     IF closing_volume = None THEN found[1].closing_auction_volume
                     ELSE closing_volume)
    IN  IF found = None THEN [ok |-> FALSE, table |-> table]
        ELSE update_stock_basic_info(table, update_data, db_error)

\* The market prefix the refresh puts before a provider code, by first digit.
MarketPrefixOf(code) ==
    IF code[1] = 6 THEN Some("sh")
    ELSE IF code[1] \in {0, 3} THEN Some("sz")
    ELSE IF code[1] \in {4, 8} THEN Some("bj")
    ELSE None

\* The provider row is kept: code and name are not blank and the code's market
\* is recognised.
RowKept(row) == row.code # <<>> /\ row.name # "" /\ MarketPrefixOf(row.code) # None

\* Lines 39-68 of the updater: the stock_info_list built from the provider's
\* rows; both auction volumes are None in every record.
StockInfoList(stock_data) ==
    LET kept == SelectSeq(stock_data, RowKept)
    IN  [k \in 1..Len(kept) |->
            InfoDict(InfoSymbol(MarketPrefixOf(kept[k].code)[1], kept[k].code),
                     kept[k].name, None, None)]

\* ---- bounds and inputs

\* Calls made in one behaviour.
MaxInfoOps == 2
\* Rows in the provider's answer.
MaxProviderRows == 2
\* Records in a list handed to batch_update_stock_basic_info.
MaxBatch == 3

Sh60 == InfoSymbol("sh", <<6, 0>>)
Sz00 == InfoSymbol("sz", <<0, 0>>)

\* Tables the refresh leaves behind: empty, or the two listed stocks.
InfoStores ==
    {<<>>, (Sh60 :> InfoRow("A", None, None)) @@ (Sz00 :> InfoRow("B", None, None))}

\* Symbols update_auction_volume is called with: with and without prefix.
AuctionSymbols == {Sh60, Sz00, InfoSymbol("", <<6, 0>>), InfoSymbol("bj", <<6, 0>>)}

\* Provider rows: listed codes under either name, a code of no known market,
\* a blank name, a blank code.
ProviderRows ==
    {[code |-> <<6, 0>>, name |-> "A"], [code |-> <<6, 0>>, name |-> "B"],
     [code |-> <<0, 0>>, name |-> "B"], [code |-> <<9, 0>>, name |-> "A"],
     [code |-> <<6, 0>>, name |-> ""], [code |-> <<>>, name |-> "A"]}

\* Records handed to the batch: two complete ones and one without symbol.
BatchRecords ==
    {InfoDict(Sh60, "B", Some(5), None), InfoDict(Sz00, "A", None, Some(7)),
     InfoDict(NoSymbol, "A", None, None)}

\* The statements the database may reject: a record without symbol never
\* reaches the database.
DbErrors(stock_info_list) ==
    {e \in [1..Len(stock_info_list) -> BOOLEAN] :
        \A k \in 1..Len(stock_info_list) : stock_info_list[k].symbol = NoSymbol => ~e[k]}

\* One entry of info_log.
Call(op, symbol, morning_volume, closing_volume, stock_info_list, db_errors, committed, ok, success_count) ==
    [op |-> op, symbol |-> symbol, morning_volume |-> morning_volume,
     closing_volume |-> closing_volume, stock_info_list |-> stock_info_list,
     db_errors |-> db_errors, committed |-> committed, ok |-> ok,
     success_count |-> success_count]

InfoInit ==
    /\ LoopIdle
    /\ EndpointIdle
    /\ TestIdle
    /\ ScreenIdle
    /\ CompileIdle
    /\ GrangerIdle
    /\ stock_basic_info \in InfoStores
    /\ info_before = stock_basic_info
    /\ info_log = <<>>

\* update_auction_volume(db, symbol, morning_volume, closing_volume)
UpdateAuctionVolume ==
    /\ Len(info_log) < MaxInfoOps
    /\ \E symbol \in AuctionSymbols, morning_volume \in {None, Some(5)},
          closing_volume \in {None, Some(7)}, db_error \in BOOLEAN :
        \E r \in {update_auction_volume(stock_basic_info, symbol, morning_volume,
                                        closing_volume, db_error)} :
            /\ stock_basic_info' = r.table
            /\ info_log' = Append(info_log,
                                  Call("update_auction_volume", symbol, morning_volume,
                                       closing_volume, <<>>, <<db_error>>, <<r.ok>>, r.ok, 0))
    /\ info_before' = stock_basic_info
    /\ UNCHANGED <<screen_vars, compile_vars, granger_vars, test_vars, endpoint_vars, loop_vars>>

\* batch_update_stock_basic_info(db, stock_info_list)
BatchUpdate ==
    /\ Len(info_log) < MaxInfoOps
    /\ \E stock_info_list \in SeqsOf(BatchRecords, 0, MaxBatch) :
        \E db_errors \in DbErrors(stock_info_list) :
            \E r \in {batch_update_stock_basic_info(stock_basic_info, stock_info_list,
                                                    db_errors)} :
                /\ stock_basic_info' = r.table
                /\ info_log' = Append(info_log,
                                      Call("batch_update_stock_basic_info", NoSymbol, None,
                                           None, stock_info_list, db_errors, r.committed,
                                           TRUE, r.success_count))
    /\ info_before' = stock_basic_info
    /\ UNCHANGED <<screen_vars, compile_vars, granger_vars, test_vars, endpoint_vars, loop_vars>>

\* update_stock_basic_info(db) of the updater: the provider answers with its
\* rows and the list built from them goes through the batch.
UpdateFromAkshare ==
    /\ Len(info_log) < MaxInfoOps
    /\ \E stock_data \in SeqsOf(ProviderRows, 0, MaxProviderRows) :
        \E db_errors \in DbErrors(StockInfoList(stock_data)) :
            \E r \in {batch_update_stock_basic_info(stock_basic_info,
                                                    StockInfoList(stock_data), db_errors)} :
                /\ stock_basic_info' = r.table
                /\ info_log' = Append(info_log,
                                      Call("update_stock_basic_info", NoSymbol, None, None,
                                           StockInfoList(stock_data), db_errors, r.committed,
                                           TRUE, r.success_count))
    /\ info_before' = stock_basic_info
    /\ UNCHANGED <<screen_vars, compile_vars, granger_vars, test_vars, endpoint_vars, loop_vars>>

\* update_stock_basic_info(db) of the updater when ak.stock_zh_a_spot() raises:
\* the except branch returns 0 and nothing is written.
UpdateFromAkshareFails ==
    /\ Len(info_log) < MaxInfoOps
    /\ info_log' = Append(info_log,
                          Call("update_stock_basic_info", NoSymbol, None, None, <<>>, <<>>,
                               <<>>, FALSE, 0))
    /\ info_before' = stock_basic_info
    /\ UNCHANGED <<stock_basic_info, screen_vars, compile_vars, granger_vars, test_vars,
                   endpoint_vars, loop_vars>>

InfoNext == UpdateAuctionVolume \/ BatchUpdate \/ UpdateFromAkshare \/ UpdateFromAkshareFails

SpecInfo == InfoInit /\ [][InfoNext]_vars

-----------------------------------------------------------------------------
(* Screening: properties *)

\* A query has returned normally and its response is still at hand.
ScreenServed == screen_out # None /\ screen_out[1].status = "ok"

\* The table the served query read.
ServedTable == IF target = "stock" THEN stock_daily_data ELSE index_daily_data

\* The market rule of the served request, as its LIKE patterns.
ServedMarketPatterns ==
    LET clause == IF target = "stock" THEN StockMarketClause(strategy[1].market[1])
                  ELSE IndexMarketClause(strategy[1].market[1])
    IN  clause[1].patterns

ItemSymbols == {screen_out[1].items[i].symbol : i \in 1..Len(screen_out[1].items)}

\* The conditions of the served request, combined with its logic, on one row.
ConditionsHold(row) ==
    LET s == strategy[1]
        is_index == target = "index"
    IN  EvalGroup(Group(LogicOperator(s), ConditionClauses(s, is_index)),
                  ConditionParams(s, is_index, Len(s.conditions)), row)

MarketHolds(row) ==
    MarketGiven(strategy[1]) => \E p \in ServedMarketPatterns : Like(row.symbol, p)

\* The most recent row of a symbol in the served table.
LatestRow(symbol) ==
    CHOOSE r \in ServedTable :
        /\ r.symbol = symbol
        /\ \A o \in ServedTable : o.symbol = symbol => o.date <= r.date

\* C1: with market sh/sz/bj, every returned symbol passes the market prefix
\* rule, for AND and for OR and for any number of conditions.
C1_MarketAlwaysAnded ==
    (ScreenServed /\ MarketGiven(strategy[1])) =>
        \A sym \in ItemSymbols : \E p \in ServedMarketPatterns : Like(sym, p)

\* C1 witness: logic OR, two conditions, a row that satisfies the conditions
\* but fails the market rule, and a non-empty result.
C1_Witness ==
    /\ ScreenServed
    /\ MarketGiven(strategy[1])
    /\ strategy[1].logic = "OR"
    /\ Len(strategy[1].conditions) = 2
    /\ \E r \in ServedTable : ConditionsHold(r) /\ ~MarketHolds(r)
    /\ ItemSymbols # {}

\* C2: a symbol is returned exactly when its most recent row passes the market
\* rule and the combined conditions (the "if" part only without a row cap).
C2_LatestRowDecides ==
    ScreenServed =>
        \A sym \in {r.symbol : r \in ServedTable} :
            LET latest == LatestRow(sym)
                passes == MarketHolds(latest) /\ ConditionsHold(latest)
            IN  /\ sym \in ItemSymbols => passes
                /\ (strategy[1].max_stocks = None /\ passes) => sym \in ItemSymbols

\* C3: every item's latest_price is the close of the symbol's most recent row
\* in the table.
C3_LatestPriceIsLatestClose ==
    ScreenServed =>
        \A i \in 1..Len(screen_out[1].items) :
            screen_out[1].items[i].latest_price
                = LatestRow(screen_out[1].items[i].symbol).close

-----------------------------------------------------------------------------
(* One condition: properties *)

\* r <operator> v as the comparison operators are ordinarily read.
StdCompare(r, operator, v) ==
    CASE operator = GT -> r > v
      [] operator = GTE -> r = v \/ r > v
      [] operator = LT -> r < v
      [] operator = LTE -> r = v \/ r < v
      [] operator = EQ -> r = v
      [] operator = NEQ -> ~(r = v)

SimpleOperators == {GT, GTE, LT, LTE, EQ, NEQ}

\* C5: for >, >=, <, <=, ==, != and a numeric value v, the compiled predicate
\* is true on a row holding r exactly when r <op> v.
C5_ComparisonSemantics ==
    (/\ cpc = "evaluated"
     /\ cond[1].condition.operator \in SimpleOperators
     /\ ~cond[1].condition.value.isList) =>
        probe[1].outcome =
            IF StdCompare(probe[1].row, cond[1].condition.operator,
                          cond[1].condition.value.items[1])
            THEN "true" ELSE "false"

\* C5 witness: >= evaluated on the boundary row r = v is true.
C5_Witness ==
    /\ cpc = "evaluated"
    /\ cond[1].condition.operator = GTE
    /\ ~cond[1].condition.value.isList
    /\ probe[1].row = cond[1].condition.value.items[1]
    /\ probe[1].outcome = "true"

\* A between value that is not a list of two numbers with the first below the
\* second.
BadBetweenValue(v) ==
    IF ~v.isList \/ Len(v.items) # 2 THEN TRUE ELSE v.items[1] >= v.items[2]

\* C6: a between condition with a malformed value is rejected, so a between
\* condition that is compiled has a two-element value with value[0] < value[1]
\* and binds low < high.
C6_BetweenBounds ==
    LET c == cond[1].condition
    IN  cond # None =>
        /\ (cpc # "raw" /\ c.operator = BETWEEN /\ BadBetweenValue(c.value))
                => cpc = "rejected"
        /\ (compiled # None /\ c.operator = BETWEEN) =>
                /\ ~BadBetweenValue(c.value)
                /\ compiled[1].params[ParamName(cond[1].index, "_low")].items[1]
                     < compiled[1].params[ParamName(cond[1].index, "_high")].items[1]

\* C6 witness: a between condition went through construction and compilation.
C6_Witness ==
    /\ cpc = "compiled"
    /\ cond[1].condition.operator = BETWEEN
    /\ DOMAIN compiled[1].params
         = {ParamName(cond[1].index, "_low"), ParamName(cond[1].index, "_high")}

\* C7: a list value with >, >=, <, <=, ==, != is rejected, so no list is ever
\* bound to the single parameter value_<index>.
C7_NoListBoundToSingleParam ==
    LET c == cond[1].condition
    IN  cond # None =>
        /\ (cpc # "raw" /\ c.operator \in SimpleOperators /\ c.value.isList)
                => cpc = "rejected"
        /\ compiled # None =>
                \A n \in DOMAIN compiled[1].params :
                    n.suffix = "" => ~compiled[1].params[n].isList

-----------------------------------------------------------------------------
(* Series Aligner: properties *)

StockVolumeOn(d) == (CHOOSE r \in Range(stock_kline) : r.date = d).volume

\* The dates C8 names: common to stock and index and, when suspensions are
\* excluded, with positive stock volume.
ExpectedDays(ex) ==
    {d \in {r.date : r \in Range(stock_kline)} \cap {r.date : r \in Range(index_kline["idxA"])} :
        ~ex \/ StockVolumeOn(d) > 0}

\* C8: the two returned series have equal length, the same dates position by
\* position, strictly ascending, and cover exactly the expected date set; the
\* index's volume plays no part.
C8_AlignedSeries ==
    aligned # None =>
        LET out == aligned[1].out
        IN  /\ Len(out.stock) = Len(out.index)
            /\ \A i \in 1..Len(out.stock) : out.stock[i].date = out.index[i].date
            /\ \A i, j \in 1..Len(out.stock) : i < j => out.stock[i].date < out.stock[j].date
            /\ {out.stock[i].date : i \in 1..Len(out.stock)}
                 = {to_datetime(d) : d \in ExpectedDays(aligned[1].exclude_suspension)}

\* C8 witness: stock days 1,2,3 with volumes 0,5,5 fetched out of order, index
\* days 1..4 all with volume 0, suspensions excluded: exactly days 2 and 3.
C8_Witness ==
    /\ aligned # None
    /\ aligned[1].exclude_suspension
    /\ stock_kline = <<[date |-> 3, close |-> 13, volume |-> 5],
                       [date |-> 1, close |-> 11, volume |-> 0],
                       [date |-> 2, close |-> 12, volume |-> 5]>>
    /\ {r.date : r \in Range(index_kline["idxA"])} = {1, 2, 3, 4}
    /\ \A r \in Range(index_kline["idxA"]) : r.volume = 0
    /\ aligned[1].out.stock = <<[date |-> to_datetime(2), close |-> 12],
                                [date |-> to_datetime(3), close |-> 13]>>
    /\ aligned[1].out.index = <<[date |-> to_datetime(2), close |-> 22],
                                [date |-> to_datetime(3), close |-> 23]>>

-----------------------------------------------------------------------------
(* Causality pipeline: properties *)

\* C4: x is the cause and y the effect: the stock_to_index test regresses the
\* index's returns on their own lags and on the stock's lagged returns, and the
\* index_to_stock test regresses the stock's returns on their own lags and on
\* the index's lagged returns.
C4_CauseAndEffect ==
    \A k \in 1..Len(lib_calls) :
        LET c == lib_calls[k]
        IN  IF c.direction = "stock_to_index"
            THEN /\ c.fitted.dependent = c.index
                 /\ c.fitted.own_lags_of = c.index
                 /\ c.fitted.added_lags_of = c.stock
            ELSE /\ c.fitted.dependent = c.stock
                 /\ c.fitted.own_lags_of = c.stock
                 /\ c.fitted.added_lags_of = c.index

\* C9: when the stock's fetch or an index's fetch returns no rows,
\* get_stock_index_data returns two empty series without raising, the index is
\* skipped (it is not in the results), and the request still ends in a
\* response.
C9_EmptyFetchSkipped ==
    /\ gpc # "crashed"
    /\ gpc = "done" => response # None
    /\ \A k \in 1..Len(processed) :
        LET e == processed[k]
        IN  (\/ stock_kline = <<>>
             \/ index_kline[e.index_symbol] = <<>> /\ e.index_symbol \notin fetch_fails) =>
                /\ e.data = EmptyPair
                /\ e.outcome = "skipped_empty"
                /\ \A i \in 1..Len(results) : results[i].index_symbol # e.index_symbol

\* C9 witness: the stock has rows, one index's fetch was empty and was
\* skipped, another index was tested, and the response was built.
C9_Witness ==
    /\ gpc = "done"
    /\ stock_kline # <<>>
    /\ \E k \in 1..Len(processed) :
        /\ index_kline[processed[k].index_symbol] = <<>>
        /\ processed[k].outcome = "skipped_empty"
    /\ Len(response[1].results) = 1

\* C10: for a stock get_stock_info does not know, the only database read ever
\* made is the stock lookup: the indices list is never read, no price series
\* is fetched, no index is processed and no response is built.
C10_NotFoundBeforeIndices ==
    /\ gpc = "not_found" => stock_info = None
    /\ (stock_info = None /\ request # None) =>
        /\ gpc \in {"start", "not_found"}
        /\ \A k \in 1..Len(queries) : queries[k].kind = "get_stock_info"
        /\ indices = <<>>
        /\ processed = <<>>
        /\ lib_calls = <<>>
        /\ results = <<>>
        /\ response = None

\* C10 witness: the lookup failed while two indices were there to be read.
C10_Witness ==
    /\ gpc = "not_found"
    /\ DOMAIN index_kline = IndexPool
    /\ queries = <<Query("get_stock_info", request[1].stock_symbol)>>

\* The days an index shares with the stock once the stock's suspended days
\* (volume 0) are left out on request.
CommonDays(index_symbol) ==
    {r.date : r \in {x \in Range(stock_kline) :
                        ~request[1].exclude_suspension \/ x.volume > 0}}
    \cap {r.date : r \in Range(index_kline[index_symbol])}

\* The index's processing raises: its price fetch is attempted and fails.
ProcessingRaises(index_symbol) == stock_kline # <<>> /\ index_symbol \in fetch_fails

SymbolsOf(q) == [i \in 1..Len(q) |-> q[i].index_symbol]

\* C11: for a known stock no per-index event aborts the request; once the
\* response is built every index of the list has been processed exactly once,
\* and the results are exactly the indices whose processing did not raise and
\* whose aligned series are not empty, each once, in enumeration order.
C11_BadIndexNeverAborts ==
    /\ stock_info # None => gpc # "crashed"
    /\ gpc = "done" =>
        LET Kept(e) == /\ ~ProcessingRaises(e.index_symbol)
                       /\ CommonDays(e.index_symbol) # {}
        IN  /\ response # None
            /\ response[1].results = results
            /\ Len(processed) = Cardinality(DOMAIN index_kline)
            /\ Range(SymbolsOf(processed)) = DOMAIN index_kline
            /\ SymbolsOf(results) = SymbolsOf(SelectSeq(processed, Kept))

\* C11 witness: of two indices the first one processed raised, the second was
\* tested, and the response carries that second index alone.
C11_Witness ==
    /\ gpc = "done"
    /\ Len(processed) = 2
    /\ processed[1].outcome = "skipped_error"
    /\ processed[2].outcome = "appended"
    /\ SymbolsOf(response[1].results) = <<processed[2].index_symbol>>

\* C11 witness of the other skip: an index whose fetches both returned rows but
\* whose aligned series are empty (every stock day suspended) was skipped.
C11_WitnessEmptyAligned ==
    /\ gpc = "done"
    /\ \E k \in 1..Len(processed) :
        /\ processed[k].outcome = "skipped_empty"
        /\ stock_kline # <<>>
        /\ index_kline[processed[k].index_symbol] # <<>>

-----------------------------------------------------------------------------
(* run_granger_test: properties *)

\* C12: whenever the library cannot compute the test (it raises: too few
\* observations for max_lag, degenerate data), run_granger_test returns a
\* result with an error message and the default verdict has_causality = false,
\* significant_lags = [], min_p_value = null.
C12_FailureGivesDefaultVerdict ==
    test_result # None =>
        LET a == test_args[1]
            r == test_result[1]
        IN  /\ (Len(a.x_series) - 1 <= 3 * a.max_lag + 1) => lib_out[1].raised
            /\ lib_out[1].raised =>
                /\ r.error # None
                /\ r.lags = <<>>
                /\ r.conclusion.has_causality = FALSE
                /\ r.conclusion.significant_lags = <<>>
                /\ r.conclusion.min_p_value = None

\* C12 witness: three prices give two returns, too few for any lag.
C12_Witness ==
    /\ test_result # None
    /\ Len(test_args[1].x_series) = 3
    /\ lib_out[1].raised
    /\ test_result[1].error # None

\* C13: in a successful result, for every lag L in 1..max_lag is_significant
\* is p_value < significance_level (strict); significant_lags lists exactly
\* the significant lags in ascending order; has_causality says that list is
\* not empty; min_p_value is the least p_value over all the lags.
C13_Aggregation ==
    (test_result # None /\ ~lib_out[1].raised) =>
        LET a == test_args[1]
            r == test_result[1]
            sig == r.conclusion.significant_lags
        IN  /\ r.error = None
            /\ DOMAIN r.lags = 1..a.max_lag
            /\ \A L \in 1..a.max_lag :
                /\ r.lags[L].p_value = lib_out[1].ssr_ftest[L].p_value
                /\ r.lags[L].f_value = lib_out[1].ssr_ftest[L].f_value
                /\ r.lags[L].is_significant = (r.lags[L].p_value < a.significance_level)
            /\ Range(sig) = {L \in 1..a.max_lag : r.lags[L].is_significant}
            /\ \A i, j \in 1..Len(sig) : i < j => sig[i] < sig[j]
            /\ r.conclusion.has_causality = (sig # <<>>)
            /\ r.conclusion.min_p_value # None
            /\ \E L \in 1..a.max_lag : r.conclusion.min_p_value[1] = r.lags[L].p_value
            /\ \A L \in 1..a.max_lag : r.conclusion.min_p_value[1] <= r.lags[L].p_value

\* C13 witness: of three lags only the third is significant at 0.05; the
\* second sits exactly on the level and is not.
C13_Witness ==
    /\ test_result # None
    /\ ~lib_out[1].raised
    /\ test_args[1].max_lag = 3
    /\ test_args[1].significance_level = 5
    /\ test_result[1].lags[2].p_value = 5
    /\ test_result[1].conclusion.significant_lags = <<3>>
    /\ test_result[1].conclusion.has_causality
    /\ test_result[1].conclusion.min_p_value = Some(1)

\* C16: if either price series holds a non-positive price, the result of
\* run_granger_test is an error result, never a successful one.
C16_NonPositivePriceFails ==
    test_result # None =>
        LET a == test_args[1]
        IN  (\E r \in Range(a.x_series) \cup Range(a.y_series) : r.close <= 0) =>
                test_result[1].error # None

-----------------------------------------------------------------------------
(* Strategy execution endpoints: properties *)

\* The request went through validate_strategy without errors and reached
\* StrategyService.execute_strategy.
ReachedExecuteStrategy ==
    /\ epc = "responded"
    /\ endpoint = "execute"
    /\ ep_errors = Some(<<>>)

\* execute_strategy raised its ValueError before anything else was called: no
\* condition was compiled and the store was not read.
RaisedBeforeCompiling ==
    /\ trace = <<"validate_strategy", "execute_strategy">>
    /\ http[1].status = 400
    /\ http[1].result = None

\* C14 (as amended): execute_strategy called with a target_type whose
\* lower-cased form is neither "stock" nor "index" raises the input-validation
\* error before any condition is compiled and before the store is read.
C14_UnsupportedTargetRaisesFirst ==
    (ReachedExecuteStrategy /\ Lower(target_type) \notin {"stock", "index"}) =>
        RaisedBeforeCompiling

\* C14 (as stated): execute_strategy called with a target_type other than
\* "stock" or "index" raises the input-validation error before any condition
\* is compiled and before the store is read.
C14_AnyOtherTargetRaises ==
    (ReachedExecuteStrategy /\ target_type \notin {"stock", "index"}) =>
        RaisedBeforeCompiling

\* C14 witness: target_type "fund" was refused with nothing compiled or read.
C14_Witness ==
    /\ ReachedExecuteStrategy
    /\ target_type = "fund"
    /\ RaisedBeforeCompiling

\* The list of errors the client was given for the request: pydantic's at
\* construction, or else validate_strategy's.
ListsField(field) ==
    \/ /\ http[1].status = 422
       /\ \E e \in Range(http[1].errors) : e.field = field
    \/ /\ ep_errors # None
       /\ \E e \in Range(ep_errors[1]) : e.field = field

ListsValueOf(k) ==
    \/ /\ http[1].status = 422
       /\ \E e \in Range(http[1].errors) : e.field = "value" /\ e.index = k - 1
    \/ /\ ep_errors # None
       /\ \E e \in Range(ep_errors[1]) : e.field = "value" /\ e.number = k

\* C15: every structural problem present in a strategy (empty name, empty
\* conditions list, malformed between bounds) has its entry in the list of
\* errors reported for it.
C15_EveryProblemListed ==
    epc = "responded" =>
        LET b == body[1]
        IN  /\ Strip(b.name) = "" => ListsField("name")
            /\ b.conditions = <<>> => ListsField("conditions")
            /\ \A k \in 1..Len(b.conditions) :
                (/\ b.conditions[k].operator = BETWEEN
                 /\ BadBetweenValue(b.conditions[k].value)) => ListsValueOf(k)

\* C20: when validate_strategy returns a non-empty list the client receives
\* HTTP 400 with that list as detail, and no query is executed.
C20_ValidationFailureIs400 ==
    (epc = "responded" /\ ep_errors # None /\ ep_errors[1] # <<>>) =>
        /\ http[1].status = 400
        /\ http[1].detail = "errors"
        /\ http[1].errors = ep_errors[1]
        /\ trace = <<"validate_strategy">>

-----------------------------------------------------------------------------
(* Result records: properties *)

C19_RequestedDirectionsOnly ==
    gpc = "done" =>
        LET direction == request[1].test_direction
            items == response[1].results
        IN  \A i \in 1..Len(items) :
                /\ (items[i].stock_to_index_result # None)
                        = (direction \in {"stock_to_index", "both"})
                /\ (items[i].index_to_stock_result # None)
                        = (direction \in {"index_to_stock", "both"})
                /\ ~(/\ items[i].stock_to_index_result = None
                     /\ items[i].index_to_stock_result = None)

\* C19 witness: a stock_to_index request answered with two items.
C19_Witness ==
    /\ gpc = "done"
    /\ request[1].test_direction = "stock_to_index"
    /\ Len(response[1].results) = 2
    /\ response[1].results[1].stock_to_index_result # None
    /\ response[1].results[1].index_to_stock_result = None

-----------------------------------------------------------------------------
(* Parameter bindings: properties *)

\* The values condition k of the compiled strategy should be evaluated with.
OwnValues(k) ==
    LET c == loop_strategy[1].conditions[k]
    IN  IF c.operator = BETWEEN
        THEN {Scalar(c.value.items[1]), Scalar(c.value.items[2])}
        ELSE {c.value}

\* The names a clause refers to.
ClauseNames(clause) == {clause.param, clause.low, clause.high}

\* C18: condition i (0-based) binds only value_i, or value_i_low and
\* value_i_high for between; the names of different conditions differ as text;
\* after all the merges every name still holds its own condition's value; and
\* the clause text names its own condition's parameters and does not change
\* with the condition's value.
C18_BindingsUniquePerCondition ==
    bound_params # None =>
        LET s == loop_strategy[1]
            n == Len(s.conditions)
        IN  /\ \A k \in 1..n :
                /\ {ParamText(x) : x \in DOMAIN condition_params[k]}
                     = IF s.conditions[k].operator = BETWEEN
                       THEN {<<"v", "a", "l", "u", "e", "_">> \o Digits(k - 1)
                                \o <<"_", "l", "o", "w">>,
                             <<"v", "a", "l", "u", "e", "_">> \o Digits(k - 1)
                                \o <<"_", "h", "i", "g", "h">>}
                       ELSE {<<"v", "a", "l", "u", "e", "_">> \o Digits(k - 1)}
                /\ ClauseNames(loop_clauses[k]) = DOMAIN condition_params[k]
                /\ \A x \in DOMAIN condition_params[k] :
                    /\ bound_params[1][ParamText(x)] = condition_params[k][x]
                    /\ condition_params[k][x] \in OwnValues(k)
                /\ \A v \in {ListOf(<<0, 1>>), ListOf(<<5, 9>>)} :
                    build_condition_clause([s.conditions[k] EXCEPT !.value = v], k - 1,
                                           s.is_index).clause = loop_clauses[k]
            /\ \A j, k \in 1..n :
                j # k => \A x \in DOMAIN condition_params[j], y \in DOMAIN condition_params[k] :
                            ParamText(x) # ParamText(y)
            /\ Cardinality(DOMAIN bound_params[1])
                 = Cardinality({<<k, x>> \in (1..n) \X {"", "_low", "_high"} :
                                    ParamName(k - 1, x) \in DOMAIN condition_params[k]})

\* C18 witness: eleven conditions, so that value_1 and value_10 are both
\* bound, the second condition a between.
C18_Witness ==
    /\ bound_params # None
    /\ Len(loop_strategy[1].conditions) = 11
    /\ loop_strategy[1].conditions[2].operator = BETWEEN
    /\ bound_params[1][<<"v", "a", "l", "u", "e", "_", "1", "0">>] = Scalar(11)
    /\ bound_params[1][<<"v", "a", "l", "u", "e", "_", "1", "_", "l", "o", "w">>] = Scalar(2)

-----------------------------------------------------------------------------
(* _build_condition_clause: time_frame and days *)

\* C21: the compiled predicate and its parameter bindings do not depend on
\* time_frame or days: every condition that agrees with the compiled one on
\* indicator, operator, value, index and table qualifier, whatever its
\* time_frame (daily/weekly/monthly) and days (absent, 1, more than 1), compiles
\* to the identical clause and the identical bindings.
C21_TimeFrameAndDaysIgnored ==
    cpc \in {"compiled", "evaluated"} =>
        \A tf \in TimeFrame, d \in RawDays :
            build_condition_clause([cond[1].condition EXCEPT !.time_frame = tf, !.days = d],
                                   cond[1].index, cond[1].is_index) = compiled[1]

\* C21 witness: a weekly condition required on 2 consecutive days is compiled
\* to the plain comparison, bound to its value.
C21_Witness ==
    /\ cpc = "compiled"
    /\ cond[1].condition.time_frame = "weekly"
    /\ cond[1].condition.days = Some(2)
    /\ cond[1].condition.operator = GT
    /\ compiled[1].clause # TrueClause
    /\ DOMAIN compiled[1].params = {ParamName(cond[1].index, "")}

-----------------------------------------------------------------------------
(* run_granger_test: shape of the result *)

\* The default conclusion of the except branch.
DefaultConclusion ==
    [has_causality |-> FALSE, significant_lags |-> <<>>, min_p_value |-> None]

\* C24: every result of run_granger_test has exactly one of two shapes:
\* success (no error, exactly the entries lag_1..lag_max_lag, a conclusion with
\* a non-null min_p_value) or failure (an error, no per-lag entry, the default
\* conclusion); a library call that raised gives the failure shape, one that
\* returned gives the success shape, and no result holds only some lags.
C24_SuccessOrFailureShape ==
    test_result # None =>
        LET a == test_args[1]
            r == test_result[1]
            success == /\ r.error = None
                       /\ DOMAIN r.lags = 1..a.max_lag
                       /\ r.conclusion.min_p_value # None
            failure == /\ r.error # None
                       /\ r.lags = <<>>
                       /\ r.conclusion = DefaultConclusion
        IN  /\ success # failure
            /\ lib_out[1].raised <=> failure

\* C24 witness: with max_lag = 3 on series long enough for three lags the
\* library raises and the result has no lag entry at all.
C24_Witness ==
    /\ test_result # None
    /\ test_args[1].max_lag = 3
    /\ Len(test_args[1].x_series) = TestLen
    /\ \A r \in Range(test_args[1].x_series) \cup Range(test_args[1].y_series) : r.close > 0
    /\ lib_out[1].raised
    /\ test_result[1].error # None
    /\ test_result[1].lags = <<>>

\* C25: in a successful result has_causality is true exactly when
\* min_p_value < significance_level, and every lag of significant_lags lies in
\* 1..max_lag, appears once and has p_value < significance_level.
C25_VerdictConsistent ==
    (test_result # None /\ test_result[1].error = None) =>
        LET a == test_args[1]
            r == test_result[1]
            sig == r.conclusion.significant_lags
        IN  /\ r.conclusion.has_causality
                <=> (r.conclusion.min_p_value[1] < a.significance_level)
            /\ \A i \in 1..Len(sig) :
                /\ sig[i] \in 1..a.max_lag
                /\ r.lags[sig[i]].p_value < a.significance_level
                /\ \A j \in 1..Len(sig) : sig[j] = sig[i] => j = i

\* C25 witness: three lags at level 0.05, the first not significant (p = 0.09),
\* the second on the level (p = 0.05), the third significant (p = 0.01).
C25_Witness ==
    /\ test_result # None
    /\ test_result[1].error = None
    /\ test_args[1].max_lag = 3
    /\ test_args[1].significance_level = 5
    /\ test_result[1].lags[1].p_value = 9
    /\ test_result[1].lags[2].p_value = 5
    /\ test_result[1].conclusion.significant_lags = <<3>>
    /\ test_result[1].conclusion.has_causality
    /\ test_result[1].conclusion.min_p_value = Some(1)

-----------------------------------------------------------------------------
(* execute_stock_strategy: one item per symbol *)

\* C26: the items returned by execute_stock_strategy hold each symbol at most
\* once, whatever number of dated rows of a symbol satisfy the filter; total is
\* the number of items, and it is at most max_stocks when max_stocks is set.
C26_OneItemPerSymbol ==
    (ScreenServed /\ target = "stock") =>
        LET out == screen_out[1]
        IN  /\ \A i, j \in 1..Len(out.items) :
                out.items[i].symbol = out.items[j].symbol => i = j
            /\ out.total = Len(out.items)
            /\ strategy[1].max_stocks # None => out.total <= strategy[1].max_stocks[1]

\* C26 witness: two returned symbols, one of which has two dated rows with
\* different closes that both satisfy the filter.
C26_Witness ==
    /\ ScreenServed
    /\ target = "stock"
    /\ Len(screen_out[1].items) = 2
    /\ \E a, b \in stock_daily_data :
        /\ a.symbol = b.symbol
        /\ a.date # b.date
        /\ a.close # b.close
        /\ ConditionsHold(a) /\ MarketHolds(a)
        /\ ConditionsHold(b) /\ MarketHolds(b)
        /\ a.symbol \in ItemSymbols

-----------------------------------------------------------------------------
(* Table stock_basic_info: properties *)

\* The latest call.
LastCall == info_log[Len(info_log)]

\* The records of the latest call's list whose write committed with symbol s.
Written(s) ==
    {k \in 1..Len(LastCall.stock_info_list) :
        LastCall.committed[k] /\ LastCall.stock_info_list[k].symbol = s}

\* The last of them: the one whose values the row holds afterwards.
LastWritten(s) ==
    LastCall.stock_info_list[CHOOSE k \in Written(s) : \A o \in Written(s) : o <= k]

\* C22: update_auction_volume changes only what it is given: a volume given
\* as None keeps its stored value, the stored name is kept, no other symbol's
\* row changes; when the symbol has no stored row it returns False and writes
\* nothing.
C22_ChangesOnlyWhatGiven ==
    (info_log # <<>> /\ LastCall.op = "update_auction_volume") =>
        LET c == LastCall
            s == c.symbol
        IN  IF s \notin DOMAIN info_before
            THEN ~c.ok /\ stock_basic_info = info_before
            ELSE /\ DOMAIN stock_basic_info = DOMAIN info_before
                 /\ \A o \in DOMAIN info_before \ {s} : stock_basic_info[o] = info_before[o]
                 /\ stock_basic_info[s].name = info_before[s].name
                 /\ c.morning_volume = None =>
                        stock_basic_info[s].morning_auction_volume
                            = info_before[s].morning_auction_volume
                 /\ c.closing_volume = None =>
                        stock_basic_info[s].closing_auction_volume
                            = info_before[s].closing_auction_volume

\* C23: batch_update_stock_basic_info handles every record of its list on its
\* own: a record commits exactly when it has a symbol and the database accepts
\* its statement, whatever happened to the records before and after it; the
\* returned count is the number of committed records; afterwards every symbol
\* with a committed record holds the values of its last committed record and
\* every other row is as it was.
C23_RecordsIndependent ==
    (info_log # <<>> /\ LastCall.op \in {"batch_update_stock_basic_info",
                                          "update_stock_basic_info"}) =>
        LET c == LastCall
            list == c.stock_info_list
        IN  /\ Len(c.committed) = Len(list)
            /\ \A k \in 1..Len(list) :
                c.committed[k] <=> (list[k].symbol # NoSymbol /\ ~c.db_errors[k])
            /\ c.success_count = Cardinality({k \in 1..Len(list) : c.committed[k]})
            /\ DOMAIN stock_basic_info
                = (DOMAIN info_before) \cup {list[k].symbol : k \in {j \in 1..Len(list) : c.committed[j]}}
            /\ \A s \in DOMAIN stock_basic_info :
                stock_basic_info[s] =
                    IF Written(s) = {} THEN info_before[s]
                    ELSE InfoRow(LastWritten(s).name, LastWritten(s).morning_auction_volume,
                                 LastWritten(s).closing_auction_volume)

\* C23 witness: of three records written to the empty table the second is
\* rejected by the database; the first and the third are stored, the count
\* is 2.
C23_Witness ==
    /\ info_log # <<>>
    /\ LastCall.op = "batch_update_stock_basic_info"
    /\ info_before = <<>>
    /\ LastCall.committed = <<TRUE, FALSE, TRUE>>
    /\ LastCall.db_errors[2]
    /\ LastCall.success_count = 2
    /\ DOMAIN stock_basic_info = {Sh60, Sz00}

\* update_auction_volume has stored a morning or closing volume for s in a
\* call before the latest one.
AuctionStored(s) ==
    \E i \in 1..(Len(info_log) - 1) :
        /\ info_log[i].op = "update_auction_volume"
        /\ info_log[i].ok
        /\ info_log[i].symbol = s
        /\ (info_log[i].morning_volume # None \/ info_log[i].closing_volume # None)

\* C27: a bulk refresh overwrites auction volumes: after a refresh, every
\* symbol for which update_auction_volume had stored a volume and which the
\* refresh wrote has both stored volumes null and the refreshed name; every
\* symbol the refresh did not write keeps its row unchanged.
C27_RefreshOverwritesAuctionVolumes ==
    (info_log # <<>> /\ LastCall.op = "update_stock_basic_info") =>
        /\ \A s \in DOMAIN info_before :
            (AuctionStored(s) /\ Written(s) # {}) =>
                stock_basic_info[s] = InfoRow(LastWritten(s).name, None, None)
        /\ \A s \in DOMAIN info_before :
            Written(s) = {} =>
                s \in DOMAIN stock_basic_info /\ stock_basic_info[s] = info_before[s]

\* C27 witness: update_auction_volume stored morning volume 5 for sh60, then
\* the refresh wrote sh60 under the name "B": the row holds no volume; sz00,
\* which the refresh did not write, is as before.
C27_Witness ==
    /\ Len(info_log) = 2
    /\ info_log[1].op = "update_auction_volume"
    /\ info_log[1].symbol = Sh60
    /\ info_log[1].morning_volume = Some(5)
    /\ info_log[1].ok
    /\ info_log[2].op = "update_stock_basic_info"
    /\ info_before[Sh60] = InfoRow("A", Some(5), None)
    /\ Written(Sh60) # {}
    /\ Written(Sz00) = {}
    /\ stock_basic_info[Sh60] = InfoRow("B", None, None)
    /\ stock_basic_info[Sz00] = info_before[Sz00]

====
